---- MODULE Spec2Model ----
(***************************************************************************)
(* The resolved document graph of the analyzer: Document.resolve() with    *)
(* its re-entrancy guard, the feature queries of Document, the lazily      *)
(* built kind / (kind,id) indexes, ScannedImport.resolve and               *)
(* ScannedReference.resolveWithKind.  Further sections model the pure     *)
(* functions of the URL resolvers, FSUrlLoader, the namespace scanner and  *)
(* the databinding expression scanner, each under a specification of its   *)
(* own that draws the arguments of a call and applies the function.        *)
(*                                                                         *)
(* A Set<Feature> of the source iterates in insertion order; it is         *)
(* modelled by a sequence without duplicates.                              *)
(***************************************************************************)
EXTENDS Naturals, Sequences, FiniteSets, TLC

\* Resolved URLs of the documents of one analysis.
Urls == {"a", "b"}

\* Inline child documents (a <script> without src inside a document).
InlineDocs == {"i"}

AllDocs == Urls \cup InlineDocs

\* A URL that no scanned document was produced for.
MissingUrl == "x"

\* Most scanned features over all documents of the import-graph runs.
MaxFeatures == 2

\* Most scanned features over the two documents of the reference runs.
MaxRefFeatures == 3

\* Deepest nesting of resolve() activations the model follows.
MaxDepth == 5

\* Most pending requests that wait on one in-flight scan.
MaxWaiters == 2

\* Most load/parse/scan computations followed per URL.
MaxComputations == 2

AllKinds == {"document", "html-document", "import", "html-import", "element",
             "reference"}

AllIds == Urls \cup {"foo", "bar"}

VARIABLES
  scanned,              \* ScannedDocument.features of every document
  begunResolving,       \* Document._begunResolving
  doneResolving,        \* Document._doneResolving
  localFeatures,        \* Document._localFeatures
  featuresByKind,       \* Document._featuresByKind (NullIndex: null)
  featuresByKindAndId,  \* Document._featuresByKindAndId (NullIndex: null)
  stack,                \* the activations of Document.resolve(), outermost first
  lastCall,             \* the latest call of resolve() or _addFeature and its end
  scanPromises,         \* URLs with an in-flight future of a ScannedDocument
  scanWaiters,          \* requests waiting on the in-flight future of a URL
  scanCache,            \* finished ScannedDocument per URL
  scanRuns,             \* load/parse/scan computations under way per URL
  scanStarted,          \* computations started per URL so far
  scanDelivered,        \* the ScannedDocuments handed to requesters per URL
  callArgs,             \* the arguments of a call of a function without state
  callResult            \* what the call returned or threw (Pending: not yet)

docVars == <<scanned, begunResolving, doneResolving, localFeatures,
             featuresByKind, featuresByKindAndId, stack, lastCall>>

scanVars == <<scanPromises, scanWaiters, scanCache, scanRuns, scanStarted,
              scanDelivered>>

callVars == <<callArgs, callResult>>

vars == <<scanned, begunResolving, doneResolving, localFeatures,
          featuresByKind, featuresByKindAndId, stack, lastCall,
          scanPromises, scanWaiters, scanCache, scanRuns, scanStarted,
          scanDelivered, callArgs, callResult>>

-----------------------------------------------------------------------------
(* Values *)

\* null of _featuresByKind / _featuresByKindAndId.
NullIndex == <<>>

\* undefined as a feature.
NoFeature == [type |-> "undefined"]

\* undefined as a source range.
NoRange == [file |-> "none", pos |-> 0]

SourceRangeAt(d, i) == [file |-> d, pos |-> i]

\* Insertion into a Set: an element already present keeps its place.
SetAdd(s, x) == IF \E j \in 1..Len(s) : s[j] = x THEN s ELSE Append(s, x)

RECURSIVE SetAddAll(_, _)
SetAddAll(s, t) == IF t = <<>> THEN s ELSE SetAddAll(SetAdd(s, Head(t)), Tail(t))

Range(s) == {s[j] : j \in 1..Len(s)}

NoDuplicates(s) == \A j, k \in 1..Len(s) : s[j] = s[k] => j = k

\* The document as a feature of itself and of its parent.
DocumentFeature(d) == [type |-> "document", url |-> d]

\* An Import whose document is the importing document
ImportFeatureOfOwner(owner, i, url) ==
  [type |-> "import", owner |-> owner, idx |-> i, url |-> url,
   document |-> owner]

ImportFeature(owner, i, url) ==
  [type |-> "import", owner |-> owner, idx |-> i, url |-> url, document |-> url]

ElementFeature(owner, i, sf) ==
  [type |-> "element", owner |-> owner, idx |-> i, id |-> sf.id,
   statement |-> sf.statement]

ReferenceFeature(owner, i, sf, sourceRange, feature, warnings) ==
  [type |-> "reference", owner |-> owner, idx |-> i,
   identifier |-> sf.identifier, sourceRange |-> sourceRange,
   feature |-> feature, warnings |-> warnings]

Warning(code, sourceRange) == [code |-> code, sourceRange |-> sourceRange]

\* The kinds of a Document replaced by, not joined with, its typed kind
KindsTypedOnly(f) ==
  CASE f.type = "document"  -> {"html-document"}
    [] f.type = "import"    -> {"import", "html-import"}
    [] f.type = "element"   -> {"element"}
    [] f.type = "reference" -> {"reference"}

Kinds(f) ==
  CASE f.type = "document"  -> {"document", "html-document"}
    [] f.type = "import"    -> {"import", "html-import"}
    [] f.type = "element"   -> {"element"}
    [] f.type = "reference" -> {"reference"}

Identifiers(f) ==
  CASE f.type = "document"  -> IF f.url \in InlineDocs THEN {} ELSE {f.url}
    [] f.type = "import"    -> {}
    [] f.type = "element"   -> {f.id}
    [] f.type = "reference" -> {}

Warnings(f) == IF f.type = "reference" THEN f.warnings ELSE <<>>

IsResolvable(sf) == sf.type # "comment"

-----------------------------------------------------------------------------
(* Document: the traversals.  lf is the _localFeatures of every document. *)

RECURSIVE GetByKindWalk(_, _, _, _, _, _)

\* The loop of _getByKind over this._localFeatures, from position i on.
\* documentsWalked is one Set shared by the whole traversal.
GetByKindWalk(lf, d, kind, i, result, documentsWalked) ==
  IF i > Len(lf[d])
  THEN [result |-> result, walked |-> documentsWalked]
  ELSE LET feature == lf[d][i]
           r1 == IF kind \in Kinds(feature) THEN SetAdd(result, feature)
                                            ELSE result
           sub1 == IF "import" \in Kinds(feature)
                      /\ feature.document \notin documentsWalked
                   THEN GetByKindWalk(lf, feature.document, kind, 1, <<>>,
                                      documentsWalked \cup {feature.document})
                   ELSE [result |-> <<>>, walked |-> documentsWalked]
           r2 == SetAddAll(r1, sub1.result)
           sub2 == IF "document" \in Kinds(feature)
                      /\ feature.url \notin sub1.walked
                   THEN GetByKindWalk(lf, feature.url, kind, 1, <<>>,
                                      sub1.walked \cup {feature.url})
                   ELSE [result |-> <<>>, walked |-> sub1.walked]
           r3 == SetAddAll(r2, sub2.result)
       IN GetByKindWalk(lf, d, kind, i + 1, r3, sub2.walked)

\* _getByKind that stays in the document
PrivateGetByKindLocal(lf, d, kind, documentsWalked) ==
  [result |-> SelectSeq(lf[d], LAMBDA f : kind \in Kinds(f)),
   walked |-> documentsWalked \cup {d}]

\* Document._getByKind(kind, documentsWalked)
PrivateGetByKind(lf, d, kind, documentsWalked) ==
  GetByKindWalk(lf, d, kind, 1, <<>>, documentsWalked \cup {d})

RECURSIVE GetFeaturesWalk(_, _, _, _, _, _)

\* The loop of _getFeatures over this._localFeatures, from position i on;
\* the visited test at the entry of the callee is made before the call.
GetFeaturesWalk(lf, d, deep, i, result, visited) ==
  IF i > Len(lf[d])
  THEN [result |-> result, visited |-> visited]
  ELSE LET feature == lf[d][i]
           r1 == SetAdd(result, feature)
           sub1 == IF deep /\ "document" \in Kinds(feature)
                      /\ feature.url \notin visited
                   THEN GetFeaturesWalk(lf, feature.url, deep, 1, r1,
                                        visited \cup {feature.url})
                   ELSE [result |-> r1, visited |-> visited]
           sub2 == IF deep /\ "import" \in Kinds(feature)
                      /\ feature.document \notin sub1.visited
                   THEN GetFeaturesWalk(lf, feature.document, deep, 1,
                                        sub1.result,
                                        sub1.visited \cup {feature.document})
                   ELSE sub1
       IN GetFeaturesWalk(lf, d, deep, i + 1, sub2.result, sub2.visited)

\* getFeatures with the local features of the document ahead of the others
GetFeaturesLocalFirst(lf, d, deep) ==
  SetAddAll(lf[d], GetFeaturesWalk(lf, d, deep, 1, <<>>, {d}).result)

\* Document.getFeatures(deep)
GetFeatures(lf, d, deep) == GetFeaturesWalk(lf, d, deep, 1, <<>>, {d}).result

-----------------------------------------------------------------------------
(* Document: the indexes.  An index is the pair of maps; a kind or an id   *)
(* without an entry in the Map reads as the empty Set.                     *)

\* Document._initIndexes
InitIndexes ==
  [byKind |-> [k \in AllKinds |-> <<>>],
   byKindAndId |-> [k \in AllKinds |-> [id \in AllIds |-> <<>>]]]

\* An _indexFeature that fills the index by kind only
IndexFeatureByKindOnly(index, feature) ==
  [byKind |->
     [k \in AllKinds |-> IF k \in Kinds(feature)
                         THEN SetAdd(index.byKind[k], feature)
                         ELSE index.byKind[k]],
   byKindAndId |-> index.byKindAndId]

\* Document._indexFeature on non-null indexes
IndexFeature(index, feature) ==
  [byKind |->
     [k \in AllKinds |-> IF k \in Kinds(feature)
                         THEN SetAdd(index.byKind[k], feature)
                         ELSE index.byKind[k]],
   byKindAndId |->
     [k \in AllKinds |->
        [id \in AllIds |-> IF k \in Kinds(feature) /\ id \in Identifiers(feature)
                           THEN SetAdd(index.byKindAndId[k][id], feature)
                           ELSE index.byKindAndId[k][id]]]]

RECURSIVE IndexAll(_, _)
IndexAll(index, features) ==
  IF features = <<>> THEN index
  ELSE IndexAll(IndexFeature(index, Head(features)), Tail(features))

\* Document._buildIndexes: the indexes of a document that is done resolving
BuildIndexes(lf, d) == IndexAll(InitIndexes, GetFeatures(lf, d, TRUE))

\* Document.getByKind: what the call returns
GetByKindResult(lf, fbk, done, d, kind) ==
  IF fbk[d] # NullIndex THEN fbk[d][kind]
  ELSE IF done[d] THEN BuildIndexes(lf, d).byKind[kind]
  ELSE PrivateGetByKind(lf, d, kind, {}).result

\* Document.getById: what the call returns
GetByIdResult(lf, fbk, fbki, done, d, kind, identifier) ==
  IF fbki[d] # NullIndex THEN fbki[d][kind][identifier]
  ELSE IF done[d] THEN BuildIndexes(lf, d).byKindAndId[kind][identifier]
  ELSE SelectSeq(GetByKindResult(lf, fbk, done, d, kind),
                 LAMBDA f : identifier \in Identifiers(f))

GetByKind(d, kind) ==
  GetByKindResult(localFeatures, featuresByKind, doneResolving, d, kind)

GetById(d, kind, identifier) ==
  GetByIdResult(localFeatures, featuresByKind, featuresByKindAndId,
                doneResolving, d, kind, identifier)

RECURSIVE CollectWarnings(_, _)
CollectWarnings(warnings, features) ==
  IF features = <<>> THEN warnings
  ELSE CollectWarnings(SetAddAll(warnings, Warnings(Head(features))),
                       Tail(features))

\* Document.getWarnings(deep); the document's own warnings are those of the
\* scan, of which the model has none.
GetWarnings(lf, d, deep) == CollectWarnings(<<>>, GetFeatures(lf, d, deep))

-----------------------------------------------------------------------------
(* Scanned features *)

ScannedImport(url) == [type |-> "import", url |-> url]

\* A nested ScannedDocument: an inline <script> of the document.
ScannedInline(child) == [type |-> "inline", url |-> child]

ScannedElement(id, statement) ==
  [type |-> "element", id |-> id, statement |-> statement]

\* binding: the statement the identifier is bound at in scope, or "none".
ScannedReference(identifier, hasRange, binding) ==
  [type |-> "reference", kind |-> "element", identifier |-> identifier,
   hasRange |-> hasRange, binding |-> binding]

\* A scanned feature without a resolve method.
ScannedComment == [type |-> "comment"]

ScannedSourceRange(d, i, sf) ==
  IF sf.hasRange THEN SourceRangeAt(d, i) ELSE NoRange

BoundedSeq(S, n) == UNION {[1..k -> S] : k \in 0..n}

SubSeqOrEmpty(s, m, n) == IF m > n THEN <<>> ELSE SubSeq(s, m, n)

\* The features of a flat list dealt to the documents at the cuts.
Deal(flat, c1, c2) ==
  [d \in AllDocs |->
     CASE d = "a" -> SubSeqOrEmpty(flat, 1, c1)
       [] d = "b" -> SubSeqOrEmpty(flat, c1 + 1, c2)
       [] d = "i" -> SubSeqOrEmpty(flat, c2 + 1, Len(flat))]

Cuts(n) == {c \in (0..n) \X (0..n) : c[1] <= c[2]}

DealsOf(flat) == {Deal(flat, c[1], c[2]) : c \in Cuts(Len(flat))}

\* Every way to give the documents at most n scanned features in all.
Deals(alphabet, n) == UNION {DealsOf(flat) : flat \in BoundedSeq(alphabet, n)}

InlineCount(sc) ==
  Cardinality({<<d, j>> \in AllDocs \X (1..MaxFeatures + 1) :
                 j <= Len(sc[d]) /\ sc[d][j].type = "inline"})

\* An inline document is the child of one document, holds no inline
\* document itself, and exists only as such a child.
WellFormedScan(sc) ==
  /\ \A j \in 1..Len(sc["i"]) : sc["i"][j].type # "inline"
  /\ InlineCount(sc) <= 1
  /\ InlineCount(sc) = 0 => sc["i"] = <<>>

GraphAlphabet ==
  {ScannedImport(u) : u \in Urls \cup {MissingUrl}}
    \cup {ScannedInline("i"), ScannedElement("foo", "s1"), ScannedComment}

-----------------------------------------------------------------------------
(* Document.resolve and Document._addFeature *)

Frame(d) == [doc |-> d, idx |-> 1, pc |-> "loop", ret |-> "undefined"]

Call(op, d, outcome) == [op |-> op, doc |-> d, outcome |-> outcome]

Top == stack[Len(stack)]

TopFeature == scanned[Top.doc][Top.idx]

AtFeature ==
  /\ stack # <<>>
  /\ Top.pc = "loop"
  /\ Top.idx <= Len(scanned[Top.doc])

\* resolve() without its test of _doneResolving
ResolveNeverThrows(d) == FALSE

\* if (this._doneResolving) throw ...
ResolveThrows(d) == doneResolving[d]

\* resolve() without its test of _begunResolving
ResolveNeverReturnsEarly(d) == FALSE

\* if (this._begunResolving) return;
ResolveReturnsEarly(d) == begunResolving[d]

\* _addFeature without its test of _doneResolving
AddFeatureNeverThrows(d) == FALSE

\* _addFeature: if (this._doneResolving) throw ...
AddFeatureThrows(d) == doneResolving[d]

\* _addFeature past its guard: _indexFeature, then _localFeatures.add
AddFeatureEffect(d, feature) ==
  LET index == IndexFeature([byKind |-> featuresByKind[d],
                             byKindAndId |-> featuresByKindAndId[d]], feature)
      indexed == featuresByKind[d] # NullIndex
                   /\ featuresByKindAndId[d] # NullIndex
  IN /\ localFeatures' = [localFeatures EXCEPT ![d] = SetAdd(@, feature)]
     /\ featuresByKind' =
          IF indexed THEN [featuresByKind EXCEPT ![d] = index.byKind]
                     ELSE featuresByKind
     /\ featuresByKindAndId' =
          IF indexed THEN [featuresByKindAndId EXCEPT ![d] = index.byKindAndId]
                     ELSE featuresByKindAndId

\* An exception leaves every activation of resolve() on the stack.
Unwind(op, d) ==
  /\ stack' = <<>>
  /\ lastCall' = Call(op, d, "threw")
  /\ UNCHANGED <<scanned, begunResolving, doneResolving, localFeatures,
                 featuresByKind, featuresByKindAndId>>

\* this._begunResolving = true; this._addFeature(this);
EnterResolve(d, callerStack) ==
  IF AddFeatureThrows(d) THEN Unwind("resolve", d)
  ELSE /\ begunResolving' = [begunResolving EXCEPT ![d] = TRUE]
       /\ AddFeatureEffect(d, DocumentFeature(d))
       /\ stack' = Append(callerStack, Frame(d))
       /\ lastCall' = Call("resolve", d, "entered")
       /\ UNCHANGED <<scanned, doneResolving>>

\* resolve() called by the analysis on the document of a URL
ResolveCall(d) ==
  /\ stack = <<>>
  /\ IF ResolveThrows(d)
     THEN /\ lastCall' = Call("resolve", d, "threw")
          /\ UNCHANGED <<scanned, begunResolving, doneResolving, localFeatures,
                         featuresByKind, featuresByKindAndId, stack>>
     ELSE IF ResolveReturnsEarly(d)
     THEN /\ lastCall' = Call("resolve", d, "returned")
          /\ UNCHANGED <<scanned, begunResolving, doneResolving, localFeatures,
                         featuresByKind, featuresByKindAndId, stack>>
     ELSE EnterResolve(d, stack)
  /\ UNCHANGED <<scanVars, callVars>>

\* The top activation with its loop moved to the next scanned feature.
Advance == [stack EXCEPT ![Len(stack)] =
              [@ EXCEPT !.idx = @ + 1, !.pc = "loop", !.ret = "undefined"]]

\* The loop of resolve() adds the feature resolve(this) returned.
AddResolved(d, feature) ==
  IF AddFeatureThrows(d) THEN Unwind("addFeature", d)
  ELSE /\ AddFeatureEffect(d, feature)
       /\ stack' = Advance
       /\ lastCall' = Call("addFeature", d, "returned")
       /\ UNCHANGED <<scanned, begunResolving, doneResolving>>

\* if (isResolvable(scannedFeature)) fails: the feature is passed over
SkipFeature ==
  /\ AtFeature
  /\ ~IsResolvable(TopFeature)
  /\ stack' = Advance
  /\ lastCall' = Call("skip", Top.doc, "returned")
  /\ UNCHANGED <<scanned, begunResolving, doneResolving, localFeatures,
                 featuresByKind, featuresByKindAndId>>
  /\ UNCHANGED <<scanVars, callVars>>

\* A scanned element resolves to its element.
ResolveElement ==
  /\ AtFeature
  /\ TopFeature.type = "element"
  /\ AddResolved(Top.doc, ElementFeature(Top.doc, Top.idx, TopFeature))
  /\ UNCHANGED <<scanVars, callVars>>

\* document.getFeatures({kind, statement}): the features of the kind that the
\* document declares at the statement
FeaturesAtStatement(lf, d, kind, statement) ==
  SelectSeq(lf[d], LAMBDA f : kind \in Kinds(f) /\ f.type = "element"
                               /\ f.statement = statement)

\* resolveBinding: the one feature of the kind at the statement of the binding
ResolveBinding(lf, d, kind, statement) ==
  LET features == FeaturesAtStatement(lf, d, kind, statement)
  IN IF Len(features) > 1 THEN NoFeature
     ELSE IF features = <<>> THEN NoFeature
     ELSE features[1]

\* document.getFeatures({imported: true, externalPackages: true, kind, id})
GlobalLookup(d, kind, identifier) == GetById(d, kind, identifier)

\* The lookup warnings with the test for several declarations off by one
LookupWarningsOverTwo(features, sourceRange) ==
  IF sourceRange # NoRange
  THEN IF Len(features) = 0
       THEN <<Warning("could-not-resolve-reference", sourceRange)>>
       ELSE IF Len(features) > 2
       THEN <<Warning("multiple-global-declarations", sourceRange)>>
       ELSE <<>>
  ELSE <<>>

\* The lookup warnings without the one for an unresolved reference
LookupWarningsWhenSeveral(features, sourceRange) ==
  IF sourceRange # NoRange /\ Len(features) > 1
  THEN <<Warning("multiple-global-declarations", sourceRange)>>
  ELSE <<>>

\* The warnings resolveWithKind adds after the global lookup.
LookupWarnings(features, sourceRange) ==
  IF sourceRange # NoRange
  THEN IF Len(features) = 0
       THEN <<Warning("could-not-resolve-reference", sourceRange)>>
       ELSE IF Len(features) > 1
       THEN <<Warning("multiple-global-declarations", sourceRange)>>
       ELSE <<>>
  ELSE <<>>

\* [feature] = features
FirstOf(features) == IF features = <<>> THEN NoFeature ELSE features[1]

\* ScannedReference.resolveWithKind(document, kind)
ResolveWithKind(d, i, sf) ==
  LET bound == IF sf.binding # "none"
               THEN ResolveBinding(localFeatures, d, sf.kind, sf.binding)
               ELSE NoFeature
      features == GlobalLookup(d, sf.kind, sf.identifier)
      sourceRange == ScannedSourceRange(d, i, sf)
  IN IF bound # NoFeature
     THEN ReferenceFeature(d, i, sf, sourceRange, bound, <<>>)
     ELSE ReferenceFeature(d, i, sf, sourceRange, FirstOf(features),
                           LookupWarnings(features, sourceRange))

\* A scanned reference resolves to a Reference, with or without a target.
ResolveReference ==
  /\ AtFeature
  /\ TopFeature.type = "reference"
  /\ AddResolved(Top.doc, ResolveWithKind(Top.doc, Top.idx, TopFeature))
  /\ UNCHANGED <<scanVars, callVars>>

\* The analysis hands out a Document that is resolved as it stands and has
\* resolve() called on any other.
GetDocumentResolves(url) == ~doneResolving[url]

\* document.analyzer._getDocument(url) for the URL of an import, or the
\* Document of a nested ScannedDocument: the call and, where the target is
\* not resolved, the call of its resolve().
CallTarget(url, exists) ==
  LET caller == [stack EXCEPT ![Len(stack)] =
                   [@ EXCEPT !.pc = "called",
                             !.ret = IF exists THEN url ELSE "undefined"]]
      same == UNCHANGED <<scanned, begunResolving, doneResolving,
                          localFeatures, featuresByKind, featuresByKindAndId>>
  IN IF ~exists
     THEN stack' = caller /\ lastCall' = Call("getDocument", url, "undefined")
          /\ same
     ELSE IF ~GetDocumentResolves(url)
     THEN stack' = caller /\ lastCall' = Call("getDocument", url, "cached")
          /\ same
     ELSE IF ResolveThrows(url) THEN Unwind("resolve", url)
     ELSE IF ResolveReturnsEarly(url)
     THEN stack' = caller /\ lastCall' = Call("resolve", url, "returned")
          /\ same
     ELSE Len(stack) < MaxDepth /\ EnterResolve(url, caller)

\* ScannedImport.resolve: const importedDocument = ..._getDocument(this.url)
CallGetDocument ==
  /\ AtFeature
  /\ TopFeature.type = "import"
  /\ CallTarget(TopFeature.url, TopFeature.url \in Urls)
  /\ UNCHANGED <<scanVars, callVars>>

\* The resolve of a nested ScannedDocument resolves the child Document.
CallInline ==
  /\ AtFeature
  /\ TopFeature.type = "inline"
  /\ CallTarget(TopFeature.url, TRUE)
  /\ UNCHANGED <<scanVars, callVars>>

\* importedDocument && new Import(...);  if (feature) this._addFeature(feature)
FinishImport ==
  /\ stack # <<>>
  /\ Top.pc = "called"
  /\ IF Top.ret = "undefined"
     THEN /\ stack' = Advance
          /\ lastCall' = Call("skip", Top.doc, "returned")
          /\ UNCHANGED <<scanned, begunResolving, doneResolving, localFeatures,
                         featuresByKind, featuresByKindAndId>>
     ELSE AddResolved(Top.doc,
                      IF TopFeature.type = "import"
                      THEN ImportFeature(Top.doc, Top.idx, Top.ret)
                      ELSE DocumentFeature(Top.ret))
  /\ UNCHANGED <<scanVars, callVars>>

\* this._doneResolving = true, and resolve() returns
ResolveReturn ==
  /\ stack # <<>>
  /\ Top.pc = "loop"
  /\ Top.idx > Len(scanned[Top.doc])
  /\ doneResolving' = [doneResolving EXCEPT ![Top.doc] = TRUE]
  /\ stack' = SubSeq(stack, 1, Len(stack) - 1)
  /\ lastCall' = Call("return", Top.doc, "done")
  /\ UNCHANGED <<scanned, begunResolving, localFeatures, featuresByKind,
                 featuresByKindAndId>>
  /\ UNCHANGED <<scanVars, callVars>>

\* getByKind, getById and getOnlyAtId build the indexes of a document that is
\* done resolving and has none; getFeatures and getWarnings read only.
Queries == {"getByKind", "getById", "getOnlyAtId", "getFeatures", "getWarnings"}

QueryBuildsIndexesUnresolved(d, q) ==
  /\ q \in {"getByKind", "getById", "getOnlyAtId"}
  /\ featuresByKind[d] = NullIndex

QueryBuildsIndexes(d, q) ==
  /\ q \in {"getByKind", "getById", "getOnlyAtId"}
  /\ featuresByKind[d] = NullIndex
  /\ doneResolving[d]

\* A query of a caller of the analysis; resolve() runs to its end unsuspended,
\* so the caller's queries fall between the outermost calls.
Query(d, q) ==
  /\ stack = <<>>
  /\ IF QueryBuildsIndexes(d, q)
     THEN /\ featuresByKind' =
               [featuresByKind EXCEPT ![d] = BuildIndexes(localFeatures, d).byKind]
          /\ featuresByKindAndId' =
               [featuresByKindAndId EXCEPT
                  ![d] = BuildIndexes(localFeatures, d).byKindAndId]
     ELSE UNCHANGED <<featuresByKind, featuresByKindAndId>>
  /\ UNCHANGED <<scanned, begunResolving, doneResolving, localFeatures, stack,
                 lastCall>>
  /\ UNCHANGED <<scanVars, callVars>>

\* A feature handed to _addFeature from outside resolve().
ExternalFeature ==
  [type |-> "element", owner |-> "external", idx |-> 0, id |-> "foo",
   statement |-> "s0"]

\* The features the documents hold that no scanned feature resolved to.
ExternalCount ==
  Cardinality({d \in AllDocs : ExternalFeature \in Range(localFeatures[d])})

ScannedCount(sc) == Len(sc["a"]) + Len(sc["b"]) + Len(sc["i"])

\* _addFeature called from outside resolve(); the features of a run, scanned
\* and handed in, are MaxFeatures at most.
AddFeatureCall(d) ==
  /\ stack = <<>>
  /\ AddFeatureThrows(d) \/ ScannedCount(scanned) + ExternalCount < MaxFeatures
  /\ IF AddFeatureThrows(d)
     THEN /\ lastCall' = Call("addFeature", d, "threw")
          /\ UNCHANGED <<localFeatures, featuresByKind, featuresByKindAndId>>
     ELSE /\ AddFeatureEffect(d, ExternalFeature)
          /\ lastCall' = Call("addFeature", d, "returned")
  /\ UNCHANGED <<scanned, begunResolving, doneResolving, stack>>
  /\ UNCHANGED <<scanVars, callVars>>

-----------------------------------------------------------------------------
(* The analysis context: one load/parse/scan computation per resolved URL. *)
(* Loads are the only suspension points; parsing and scanning run to their *)
(* end in one step.                                                        *)

\* The URLs a scan is asked for; the load of MissingUrl fails.
ScanUrls == Urls \cup {MissingUrl}

NoScannedDocument == [url |-> "none", run |-> 0, loaded |-> FALSE]

\* The ScannedDocument the run-th computation for a URL produces.
ScannedDocumentOf(u, run, loaded) == [url |-> u, run |-> run, loaded |-> loaded]

\* The URL has a finished ScannedDocument in the cache.
ScanCached(u) == scanCache[u] # NoScannedDocument

\* A context that never finds a future in flight
ScanNeverInFlight(u) == FALSE

\* The URL has an in-flight future of a ScannedDocument.
ScanInFlight(u) == u \in scanPromises

\* A request to scan a URL, of a caller or for the import of a scanned
\* document: answered from the cache, joined to the in-flight future, or
\* the start of the one computation.
RequestScan(u) ==
  /\ IF ScanCached(u)
     THEN /\ scanDelivered' = [scanDelivered EXCEPT ![u] = @ \cup {scanCache[u]}]
          /\ UNCHANGED <<scanPromises, scanWaiters, scanCache, scanRuns,
                         scanStarted>>
     ELSE IF ScanInFlight(u)
     THEN /\ scanWaiters[u] < MaxWaiters
          /\ scanWaiters' = [scanWaiters EXCEPT ![u] = @ + 1]
          /\ UNCHANGED <<scanPromises, scanCache, scanRuns, scanStarted,
                         scanDelivered>>
     ELSE /\ scanStarted[u] < MaxComputations
          /\ scanStarted' = [scanStarted EXCEPT ![u] = @ + 1]
          /\ scanRuns' = [scanRuns EXCEPT
                            ![u] = Append(@, [run |-> scanStarted[u] + 1,
                                              phase |-> "load"])]
          /\ scanPromises' = scanPromises \cup {u}
          /\ scanWaiters' = [scanWaiters EXCEPT ![u] = 1]
          /\ UNCHANGED <<scanCache, scanDelivered>>
  /\ UNCHANGED <<docVars, callVars>>

\* The loader answers: the contents, or a failure that becomes a warning.
LoadDone(u, j) ==
  /\ j \in 1..Len(scanRuns[u])
  /\ scanRuns[u][j].phase = "load"
  /\ scanRuns' = [scanRuns EXCEPT
                    ![u][j].phase = IF u = MissingUrl THEN "failed" ELSE "loaded"]
  /\ UNCHANGED <<scanPromises, scanWaiters, scanCache, scanStarted,
                 scanDelivered>>
  /\ UNCHANGED <<docVars, callVars>>

\* Parse and scan, the entry of the result in the cache of finished
\* documents, and its delivery to every request that waits on the future.
ScanDone(u, j) ==
  /\ j \in 1..Len(scanRuns[u])
  /\ scanRuns[u][j].phase \in {"loaded", "failed"}
  /\ LET document == ScannedDocumentOf(u, scanRuns[u][j].run,
                                       scanRuns[u][j].phase = "loaded")
     IN /\ scanCache' = [scanCache EXCEPT ![u] = document]
        /\ scanDelivered' = [scanDelivered EXCEPT ![u] = @ \cup {document}]
  /\ scanRuns' = [scanRuns EXCEPT
                    ![u] = SubSeqOrEmpty(@, 1, j - 1) \o
                           SubSeqOrEmpty(@, j + 1, Len(@))]
  /\ scanPromises' = scanPromises \ {u}
  /\ scanWaiters' = [scanWaiters EXCEPT ![u] = 0]
  /\ UNCHANGED scanStarted
  /\ UNCHANGED <<docVars, callVars>>

-----------------------------------------------------------------------------
(* The specification of the document graph *)

InitDocuments ==
  /\ begunResolving = [d \in AllDocs |-> FALSE]
  /\ doneResolving = [d \in AllDocs |-> FALSE]
  /\ localFeatures = [d \in AllDocs |-> <<>>]
  /\ featuresByKind = [d \in AllDocs |-> NullIndex]
  /\ featuresByKindAndId = [d \in AllDocs |-> NullIndex]
  /\ stack = <<>>
  /\ lastCall = Call("none", "none", "none")

\* No call of a function without state is under way.
Pending == [outcome |-> "pending"]

NoArgs == [op |-> "none"]

InitCall ==
  /\ callArgs = NoArgs
  /\ callResult = Pending

InitScan ==
  /\ scanPromises = {}
  /\ scanWaiters = [u \in ScanUrls |-> 0]
  /\ scanCache = [u \in ScanUrls |-> NoScannedDocument]
  /\ scanRuns = [u \in ScanUrls |-> <<>>]
  /\ scanStarted = [u \in ScanUrls |-> 0]
  /\ scanDelivered = [u \in ScanUrls |-> {}]

Init ==
  /\ scanned \in {sc \in Deals(GraphAlphabet, MaxFeatures) : WellFormedScan(sc)}
  /\ InitDocuments
  /\ InitScan
  /\ InitCall

Next ==
  \/ \E d \in Urls : ResolveCall(d)
  \/ SkipFeature
  \/ ResolveElement
  \/ CallGetDocument
  \/ CallInline
  \/ FinishImport
  \/ ResolveReturn
  \/ \E d \in AllDocs, q \in Queries : Query(d, q)
  \/ \E d \in Urls : AddFeatureCall(d)

Spec == Init /\ [][Next]_vars

-----------------------------------------------------------------------------
(* The specification of reference resolution: two documents, the first of  *)
(* which may import the second, with elements and references to them.      *)

RefAlphabet ==
  {ScannedImport("a"), ScannedImport("b"), ScannedElement("foo", "s1"),
   ScannedElement("bar", "s1"),
   ScannedReference("foo", TRUE, "none"), ScannedReference("foo", FALSE, "none"),
   ScannedReference("foo", TRUE, "s1")}

RefDeals(n) ==
  UNION {{Deal(flat, c, Len(flat)) : c \in 0..Len(flat)} :
           flat \in BoundedSeq(RefAlphabet, n)}

InitRef ==
  /\ scanned \in RefDeals(MaxRefFeatures)
  /\ InitDocuments
  /\ InitScan
  /\ InitCall

NextRef ==
  \/ \E d \in Urls : ResolveCall(d)
  \/ ResolveElement
  \/ ResolveReference
  \/ CallGetDocument
  \/ FinishImport
  \/ ResolveReturn

SpecRef == InitRef /\ [][NextRef]_vars

-----------------------------------------------------------------------------
(* The specification of the scan phase of one analysis *)

InitScanPhase ==
  /\ scanned = [d \in AllDocs |-> <<>>]
  /\ InitDocuments
  /\ InitScan
  /\ InitCall

NextScan ==
  \/ \E u \in ScanUrls : RequestScan(u)
  \/ \E u \in ScanUrls, j \in 1..MaxComputations : LoadDone(u, j)
  \/ \E u \in ScanUrls, j \in 1..MaxComputations : ScanDone(u, j)

SpecScan == InitScanPhase /\ [][NextScan]_vars

-----------------------------------------------------------------------------
(* Resolution is never suspended: once resolve() is entered, its loop and  *)
(* the calls it makes run to their end.                                    *)

ResolveProgress ==
  \/ SkipFeature
  \/ ResolveElement
  \/ ResolveReference
  \/ CallGetDocument
  \/ CallInline
  \/ FinishImport
  \/ ResolveReturn

SpecFair == Init /\ [][Next]_vars /\ WF_vars(ResolveProgress)

-----------------------------------------------------------------------------
(* Vocabulary of the properties *)

\* The scanned features of d hold an import of the URL.
Imports(d, url) == \E j \in 1..Len(scanned[d]) : scanned[d][j] = ScannedImport(url)

\* The document holds an Import feature whose document is the target.
HoldsImportOf(d, target) ==
  \E f \in Range(localFeatures[d]) : f.type = "import" /\ f.document = target

\* The documents one step from a document: the targets of its Import features
\* and the Document features it holds.
Successors(lf, d) ==
  {f.document : f \in {g \in Range(lf[d]) : g.type = "import"}}
    \cup {f.url : f \in {g \in Range(lf[d]) : g.type = "document"}}

RECURSIVE ReachFrom(_, _)
ReachFrom(lf, S) ==
  LET next == S \cup UNION {Successors(lf, e) : e \in S}
  IN IF next = S THEN S ELSE ReachFrom(lf, next)

\* The documents reachable from d in zero or more steps.
Reach(d) == ReachFrom(localFeatures, {d})

\* The features local to the documents reachable from d.
ClosureFeatures(d) == UNION {Range(localFeatures[e]) : e \in Reach(d)}

\* d and every document reachable from it are done resolving.
ClosureDone(d) == \A e \in Reach(d) : doneResolving[e]

\* The step is a call of op on d: lastCall tells the call, and a call that
\* repeats the one before and changes nothing is no step at all.
IsCall(op, d) ==
  /\ lastCall'.op = op
  /\ lastCall'.doc = d
  /\ lastCall' # lastCall \/ stack' # stack

\* The step leaves the local features and both flags of d as they are.
DocumentUntouched(d) ==
  /\ localFeatures'[d] = localFeatures[d]
  /\ begunResolving'[d] = begunResolving[d]
  /\ doneResolving'[d] = doneResolving[d]

-----------------------------------------------------------------------------
(* C1 *)

\* C1: on every finite import graph, cyclic ones included, a call of
\* resolve() terminates: the activations of resolve() nested through imports
\* are never more than the documents, and the outermost call returns with
\* the _doneResolving flag of its document set.
ThmC1_ResolveTerminates ==
  /\ [](Len(stack) <= Cardinality(AllDocs))
  /\ \A d \in AllDocs :
       (stack # <<>> /\ stack[1].doc = d) ~> (stack = <<>> /\ doneResolving[d])

\* A document that imports itself has been resolved and its call has returned.
WitC1_SelfImportResolved ==
  \E d \in Urls : Imports(d, d) /\ doneResolving[d] /\ stack = <<>>
                  /\ HoldsImportOf(d, d)

-----------------------------------------------------------------------------
(* C2 *)

\* a and b import each other and neither holds a nested document.
MutualImport(a, b) ==
  /\ a # b
  /\ Imports(a, b)
  /\ Imports(b, a)
  /\ \A d \in {a, b} : \A j \in 1..Len(scanned[d]) : scanned[d][j].type # "inline"

\* C2: for two documents a and b that import each other, once the analysis of
\* a is complete both are resolved, each holds an Import pointing at the
\* other, each is in the transitive closure of the other, and
\* a.getByKind('document') has exactly 2 members.
ThmC2_ImportCycle ==
  \A a, b \in Urls :
    (MutualImport(a, b) /\ doneResolving[a] /\ stack = <<>>) =>
      /\ doneResolving[b]
      /\ HoldsImportOf(a, b)
      /\ HoldsImportOf(b, a)
      /\ DocumentFeature(b) \in Range(GetFeatures(localFeatures, a, TRUE))
      /\ DocumentFeature(a) \in Range(GetFeatures(localFeatures, b, TRUE))
      /\ Len(GetByKind(a, "document")) = 2
      /\ Range(GetByKind(a, "document")) = {DocumentFeature(a), DocumentFeature(b)}

\* The analysis of two documents that import each other is complete.
WitC2_CycleAnalysed ==
  /\ MutualImport("a", "b")
  /\ doneResolving["a"]
  /\ doneResolving["b"]
  /\ stack = <<>>

-----------------------------------------------------------------------------
(* C3 *)

\* C3 as stated: a call of resolve() on a document that resolve() was
\* already called on never returns; it throws.
CexC3_SecondCallThrows ==
  lastCall.op = "resolve" => lastCall.outcome \in {"entered", "threw"}

\* C3 as amended: a call of resolve() on a document that is done resolving
\* throws and leaves the local features and both flags of the document as
\* they are; a call on a document that has begun and is not done returns
\* without an error and leaves them as they are too; a call on a document
\* not begun is entered.
ThmC3_ResolveOnce ==
  [][\A d \in AllDocs :
       IsCall("resolve", d) =>
         /\ doneResolving[d] =>
              lastCall'.outcome = "threw" /\ DocumentUntouched(d)
         /\ (begunResolving[d] /\ ~doneResolving[d]) =>
              lastCall'.outcome = "returned" /\ DocumentUntouched(d)
         /\ ~begunResolving[d] => lastCall'.outcome = "entered"]_vars

\* resolve() was called on a document that is done resolving, and threw.
WitC3_CalledWhenDone ==
  \E d \in Urls : doneResolving[d] /\ lastCall = Call("resolve", d, "threw")

-----------------------------------------------------------------------------
(* C4 *)

\* C4: once a document is done resolving its local features and both flags
\* stay as they are whatever is called, and _addFeature on it throws.
ThmC4_ImmutableWhenDone ==
  [][\A d \in AllDocs :
       doneResolving[d] =>
         /\ DocumentUntouched(d)
         /\ IsCall("addFeature", d) => lastCall'.outcome = "threw"]_vars

\* _addFeature was called on a document that is done resolving and has its
\* indexes built by a query.
WitC4_AddWhenDone ==
  \E d \in Urls : /\ doneResolving[d]
                  /\ featuresByKind[d] # NullIndex
                  /\ lastCall = Call("addFeature", d, "threw")

-----------------------------------------------------------------------------
(* C5 *)

\* C5: from the moment a document and all it reaches are done resolving,
\* which is the case whenever a caller can query a document that is done,
\* getByKind(k) returns the same features in the same order at every call,
\* whatever is called in between.
ThmC5_GetByKindStable ==
  [][\A d \in AllDocs :
       doneResolving[d] =>
         /\ stack = <<>> => ClosureDone(d)
         /\ ClosureDone(d) =>
              \A k \in AllKinds :
                GetByKindResult(localFeatures', featuresByKind',
                                doneResolving', d, k) = GetByKind(d, k)]_vars

\* A document of an import cycle is done, was queried, and another document
\* was resolved after the query.
WitC5_QueriedThenResolved ==
  \E d, e \in Urls :
    /\ d # e
    /\ Imports(d, d)
    /\ featuresByKind[d] # NullIndex
    /\ lastCall = Call("return", e, "done")

-----------------------------------------------------------------------------
(* C6 *)

\* How often the document is a member of its own getByKind('document').
SelfCount(d) ==
  Cardinality({j \in 1..Len(GetByKind(d, "document")) :
                 GetByKind(d, "document")[j] = DocumentFeature(d)})

-----------------------------------------------------------------------------
(* C7 *)

\* C7: getByKind(k) of d is the set of the features of kind k local to the
\* documents reachable from d through Import and Document features, each
\* once; the traversal ends on cyclic graphs.
ThmC7_GetByKindIsClosure ==
  \A d \in AllDocs, k \in AllKinds :
    /\ Range(GetByKind(d, k)) = {f \in ClosureFeatures(d) : k \in Kinds(f)}
    /\ NoDuplicates(GetByKind(d, k))

\* A document in an import cycle is being resolved and already reaches the
\* features of the other document of the cycle.
WitC7_CycleTraversed ==
  /\ MutualImport("a", "b")
  /\ ~doneResolving["a"]
  /\ HoldsImportOf("a", "b")
  /\ HoldsImportOf("b", "a")
  /\ Len(GetByKind("a", "import")) = 2

-----------------------------------------------------------------------------
(* C8 *)

\* The ScannedDocuments that exist for a URL: the cached one and those
\* handed to requesters.
ScannedDocumentsOf(u) ==
  scanDelivered[u] \cup (IF ScanCached(u) THEN {scanCache[u]} ELSE {})

\* C8: within one analysis the requests to scan a URL share one
\* load/parse/scan computation and one ScannedDocument: never two
\* computations in flight, never two ScannedDocuments for a URL.
ThmC8_OneScanPerUrl ==
  \A u \in ScanUrls :
    /\ Len(scanRuns[u]) <= 1
    /\ scanStarted[u] <= 1
    /\ Cardinality(ScannedDocumentsOf(u)) <= 1

\* Two requests wait on the one computation in flight for a URL while the
\* ScannedDocument of another URL has been handed out from the cache.
WitC8_SharedFuture ==
  \E u, v \in ScanUrls :
    /\ scanWaiters[u] = 2
    /\ Len(scanRuns[u]) = 1
    /\ ScanCached(v)
    /\ scanDelivered[v] # {}

-----------------------------------------------------------------------------
(* C9 *)

\* The features of the kind reachable from d that go by the identifier.
Declarations(d, kind, identifier) ==
  {f \in ClosureFeatures(d) : kind \in Kinds(f) /\ identifier \in Identifiers(f)}

\* The top activation is about to resolve a scanned reference.
AtReference == AtFeature /\ TopFeature.type = "reference"

\* Scope-based resolution gives no feature: the reference falls back to the
\* global lookup.
FallsBack(d, sf) ==
  \/ sf.binding = "none"
  \/ ResolveBinding(localFeatures, d, sf.kind, sf.binding) = NoFeature

\* The Reference the step adds to the document.
AddedReference(d) == localFeatures'[d][Len(localFeatures'[d])]

\* What C9 states of the Reference r made after a lookup that found features.
LookupOutcome(r, features) ==
  /\ Len(features) = 0 =>
       /\ r.feature = NoFeature
       /\ r.warnings = <<Warning("could-not-resolve-reference", r.sourceRange)>>
  /\ Len(features) > 1 =>
       /\ r.feature = features[1]
       /\ r.warnings = <<Warning("multiple-global-declarations", r.sourceRange)>>
  /\ Len(features) = 1 =>
       /\ r.feature = features[1]
       /\ r.warnings = <<>>

\* C9 as stated: whenever resolution falls back to the global lookup, no
\* feature found gives a 'could-not-resolve-reference' warning and no
\* target, several give a 'multiple-global-declarations' warning and the
\* first as target, exactly one gives that target and no warning.
CexC9_LookupWarnings ==
  [][AtReference /\ FallsBack(Top.doc, TopFeature) =>
       LookupOutcome(AddedReference(Top.doc),
                     GlobalLookup(Top.doc, TopFeature.kind,
                                  TopFeature.identifier))]_vars

\* C9 as amended: the same for a scanned reference that has a source range;
\* for one that has none no warning is added, whatever the lookup finds, and
\* the target is the first feature found, if any.
ThmC9_LookupWarningsWithRange ==
  [][AtReference /\ FallsBack(Top.doc, TopFeature) =>
       LET r == AddedReference(Top.doc)
           features == GlobalLookup(Top.doc, TopFeature.kind,
                                    TopFeature.identifier)
       IN /\ r.type = "reference"
          /\ TopFeature.hasRange => LookupOutcome(r, features)
          /\ ~TopFeature.hasRange =>
               r.warnings = <<>> /\ r.feature = FirstOf(features)]_vars

\* A Reference whose lookup found two declarations carries the warning and
\* the first of them.
WitC9_MultipleDeclarations ==
  \E d \in Urls : \E r \in Range(localFeatures[d]) :
    /\ r.type = "reference"
    /\ r.warnings = <<Warning("multiple-global-declarations", r.sourceRange)>>
    /\ r.feature # NoFeature
    /\ Cardinality(Declarations(d, "element", r.identifier)) = 2
    /\ \A f \in Declarations(d, "element", r.identifier) :
         f.idx >= r.feature.idx

-----------------------------------------------------------------------------
(* C10 *)

ResolutionCodes == {"could-not-resolve-reference", "multiple-global-declarations"}

\* d.getWarnings(true) holds a resolution warning with the source range.
WarnedAt(d, sourceRange) ==
  \E w \in Range(GetWarnings(localFeatures, d, TRUE)) :
    w.code \in ResolutionCodes /\ w.sourceRange = sourceRange

\* The positions of the scanned references of d.
ReferencesOf(d) ==
  {j \in 1..Len(scanned[d]) : scanned[d][j].type = "reference"}

\* The Reference that the scanned reference at position j of d resolved to.
ReferenceAt(d, j) ==
  CHOOSE r \in Range(localFeatures[d]) :
    r.type = "reference" /\ r.owner = d /\ r.idx = j

WarnedOrTargeted(d, j) ==
  LET r == ReferenceAt(d, j)
  IN /\ \E f \in Range(localFeatures[d]) :
          f.type = "reference" /\ f.owner = d /\ f.idx = j
     /\ r.sourceRange = ScannedSourceRange(d, j, scanned[d][j])
     /\ scanned[d][j].hasRange =>
          \/ WarnedAt(d, r.sourceRange)
          \/ /\ r.feature \in ClosureFeatures(d)
             /\ scanned[d][j].kind \in Kinds(r.feature)
     /\ ~scanned[d][j].hasRange => r.warnings = <<>>

\* What holds of the step that resolves a scanned reference with a source
\* range by the global lookup.
WarnedOrUniqueThen(d, sf) ==
  LET r == AddedReference(d)
      features == GlobalLookup(d, sf.kind, sf.identifier)
  IN \/ r.warnings # <<>> /\ r.warnings[1].code \in ResolutionCodes
     \/ /\ Len(features) = 1
        /\ r.feature = features[1]
        /\ sf.identifier \in Identifiers(r.feature)
        /\ Cardinality(Declarations(d, sf.kind, sf.identifier)) = 1

-----------------------------------------------------------------------------
(* UrlResolver: simpleUrlRelative and simpleUrlResolve.                    *)
(*                                                                         *)
(* A pathname is the sequence of its segments after the leading slash, a   *)
(* segment the sequence of its characters: "/a/b_" is <<a, b_>>, "/a/" is  *)
(* <<a, empty>> and "/" is <<empty>>.  An absent component of a parsed URL *)
(* (null or undefined) is Absent.                                          *)

\* Longest pathname of a resolved URL, in segments.
MaxPathLen == 2

Absent == "null"

EmptySegment == <<>>

DotDot == <<".", ".">>

Dot == <<".">>

\* File and directory names; the second ends with the character that
\* simpleUrlRelative uses as its sentinel.
SegmentNames == {<<"a">>, <<"a", "_">>}

\* Pathnames of resolved URLs: no dot segments, an empty segment only last.
Pathnames ==
  {p \in BoundedSeq(SegmentNames \cup {EmptySegment}, MaxPathLen) :
     /\ Len(p) >= 1
     /\ \A j \in 1..(Len(p) - 1) : p[j] # EmptySegment}

\* protocol, slashes ("true" or "false"), host and auth as parseUrl gives them.
Origins ==
  {[protocol |-> "http:", slashes |-> "true", host |-> "h", auth |-> Absent],
   [protocol |-> "http:", slashes |-> "true", host |-> "h", auth |-> "u"],
   [protocol |-> "http:", slashes |-> "true", host |-> "g", auth |-> Absent],
   [protocol |-> "file:", slashes |-> "true", host |-> "", auth |-> Absent]}

Searches == {Absent, "?q"}

Hashes == {Absent, "#h"}

\* parseUrl(url) of a resolved URL.
ParsedUrl(origin, pathname, search, hash) ==
  [protocol |-> origin.protocol, slashes |-> origin.slashes,
   host |-> origin.host, auth |-> origin.auth,
   pathname |-> pathname, search |-> search, hash |-> hash]

ResolvedUrls ==
  {ParsedUrl(o, p, q, h) : o \in Origins, p \in Pathnames, q \in Searches,
                           h \in Hashes}

\* The components of to that forbid a relative form: each counts only where
\* to has it (typeof ... === 'string' / 'boolean').
Conflicting(fromUrl, toUrl) ==
  \/ toUrl.protocol # Absent /\ fromUrl.protocol # toUrl.protocol
  \/ toUrl.slashes # Absent /\ fromUrl.slashes # toUrl.slashes
  \/ toUrl.host # Absent /\ fromUrl.host # toUrl.host
  \/ toUrl.auth # Absent /\ fromUrl.auth # toUrl.auth

\* fromUrl.pathname.replace(/[^/]+$/, ''), as path.posix.relative
\* normalises it: the segments before the last.
FromDir(pathname) == SubSeqOrEmpty(pathname, 1, Len(pathname) - 1)

\* toDir + '_', as path.posix.relative normalises it.
WithSentinel(pathname) ==
  [pathname EXCEPT ![Len(pathname)] = Append(@, "_")]

RECURSIVE CommonPrefixLen(_, _)
CommonPrefixLen(p, q) ==
  IF p # <<>> /\ q # <<>> /\ Head(p) = Head(q)
  THEN 1 + CommonPrefixLen(Tail(p), Tail(q))
  ELSE 0

\* path.posix.relative(from, to) of two normalised absolute paths.
PosixRelative(fromPath, toPath) ==
  LET c == CommonPrefixLen(fromPath, toPath)
  IN [j \in 1..(Len(fromPath) - c) |-> DotDot]
       \o SubSeqOrEmpty(toPath, c + 1, Len(toPath))

\* .replace(/_$/, '') on the path joined with slashes.
StripSentinel(path) ==
  IF path = <<>> THEN path
  ELSE LET last == path[Len(path)]
       IN IF last # <<>> /\ last[Len(last)] = "_"
          THEN [path EXCEPT ![Len(path)] = SubSeqOrEmpty(last, 1, Len(last) - 1)]
          ELSE path

\* The segments read back from the string the segments are joined to: the
\* one empty segment joins to the empty string, which holds no segment.
AsString(path) == IF path = <<EmptySegment>> THEN <<>> ELSE path

\* The relative pathname with the sentinel kept in place
RelativePathnameUnstripped(fromUrl, toUrl) ==
  IF fromUrl.pathname = toUrl.pathname
  THEN <<>>
  ELSE AsString(PosixRelative(FromDir(fromUrl.pathname),
                              WithSentinel(toUrl.pathname)))

\* pathname of simpleUrlRelative
RelativePathname(fromUrl, toUrl) ==
  IF fromUrl.pathname = toUrl.pathname
  THEN <<>>
  ELSE AsString(StripSentinel(PosixRelative(FromDir(fromUrl.pathname),
                                            WithSentinel(toUrl.pathname))))

\* simpleUrlRelative that computes a relative form whatever the components
SimpleUrlRelativeAlways(fromUrl, toUrl) ==
  [absolute |-> FALSE,
   pathname |-> RelativePathname(fromUrl, toUrl),
   search |-> toUrl.search, hash |-> toUrl.hash]

\* UrlResolver.simpleUrlRelative(from, to): to itself, or the string
\* urlLibFormat({pathname, search, hash}) by its three parts.
SimpleUrlRelative(fromUrl, toUrl) ==
  IF Conflicting(fromUrl, toUrl)
  THEN [absolute |-> TRUE, url |-> toUrl]
  ELSE [absolute |-> FALSE,
        pathname |-> RelativePathname(fromUrl, toUrl),
        search |-> toUrl.search, hash |-> toUrl.hash]

RECURSIVE RemoveDotsFrom(_, _)
RemoveDotsFrom(done, rest) ==
  IF rest = <<>> THEN done
  ELSE IF Head(rest) = Dot THEN RemoveDotsFrom(done, Tail(rest))
  ELSE IF Head(rest) = DotDot
  THEN RemoveDotsFrom(SubSeqOrEmpty(done, 1, Len(done) - 1), Tail(rest))
  ELSE RemoveDotsFrom(Append(done, Head(rest)), Tail(rest))

\* The dot segments of url.resolve removed; a path that ended in one, or
\* that is left empty, ends with a slash.
RemoveDots(path) ==
  LET last == path[Len(path)]
      kept == RemoveDotsFrom(<<>>, path)
  IN IF kept = <<>> \/ (last \in {Dot, DotDot} /\ kept[Len(kept)] # EmptySegment)
     THEN Append(kept, EmptySegment)
     ELSE kept

\* url.resolve(baseUrl, url) for the URLs simpleUrlRelative returns: an
\* absolute url stands; an empty one is the base without its hash; a
\* pathname replaces the last segment of the base and brings its search; a
\* search alone replaces the search; the hash is always that of url.
UrlLibResolver(baseUrl, url) ==
  IF url.absolute THEN url.url
  ELSE IF url.pathname # <<>>
  THEN [baseUrl EXCEPT
          !.pathname = RemoveDots(FromDir(baseUrl.pathname) \o url.pathname),
          !.search = url.search, !.hash = url.hash]
  ELSE IF url.search # Absent
  THEN [baseUrl EXCEPT !.search = url.search, !.hash = url.hash]
  ELSE [baseUrl EXCEPT !.hash = url.hash]

\* UrlResolver.simpleUrlResolve(url, baseUrl)
SimpleUrlResolve(url, baseUrl) == UrlLibResolver(baseUrl, url)

\* relative(from, to) is called.
CallRelative ==
  /\ callArgs.op = "relative"
  /\ callResult = Pending
  /\ callResult' = [outcome |-> "relative",
                    relative |-> SimpleUrlRelative(callArgs.from, callArgs.to)]
  /\ UNCHANGED <<docVars, scanVars, callArgs>>

\* resolve(relative(from, to), from) is called.
CallResolveRelative ==
  /\ callArgs.op = "relative"
  /\ callResult.outcome = "relative"
  /\ callResult' = [outcome |-> "resolved",
                    relative |-> callResult.relative,
                    resolved |-> SimpleUrlResolve(callResult.relative,
                                                  callArgs.from)]
  /\ UNCHANGED <<docVars, scanVars, callArgs>>

InitUrl ==
  /\ scanned = [d \in AllDocs |-> <<>>]
  /\ InitDocuments
  /\ InitScan
  /\ callArgs \in {[op |-> "relative", from |-> f, to |-> t] :
                     f \in ResolvedUrls, t \in ResolvedUrls}
  /\ callResult = Pending

NextUrl ==
  \/ CallRelative
  \/ CallResolveRelative

SpecUrl == InitUrl /\ [][NextUrl]_vars

-----------------------------------------------------------------------------
(* C11 *)

SameSchemeAndHost(fromUrl, toUrl) ==
  fromUrl.protocol = toUrl.protocol /\ fromUrl.host = toUrl.host

\* to is the directory that holds from.
IsDirectoryOf(toUrl, fromUrl) ==
  /\ toUrl.pathname # fromUrl.pathname
  /\ toUrl.pathname = Append(FromDir(fromUrl.pathname), EmptySegment)

\* The pathname of to with '_' after it leads the directory of from.
SentinelInFrom(fromUrl, toUrl) ==
  LET marked == WithSentinel(toUrl.pathname)
      dir == FromDir(fromUrl.pathname)
  IN /\ toUrl.pathname # fromUrl.pathname
     /\ Len(marked) <= Len(dir)
     /\ SubSeq(dir, 1, Len(marked)) = marked

-----------------------------------------------------------------------------
(* C12 *)

\* to differs from from in protocol, host, slashes or auth.
DiffersInOrigin(fromUrl, toUrl) ==
  \/ fromUrl.protocol # toUrl.protocol
  \/ fromUrl.host # toUrl.host
  \/ fromUrl.slashes # toUrl.slashes
  \/ fromUrl.auth # toUrl.auth

\* C12 as stated: relative(from, to) is to unchanged whenever to differs
\* from from in protocol, host, slashes or auth, and else a path-relative
\* URL with the query and fragment of to.
CexC12_AbsoluteWhenDiffers ==
  callResult.outcome = "relative" =>
    IF DiffersInOrigin(callArgs.from, callArgs.to)
    THEN callResult.relative = [absolute |-> TRUE, url |-> callArgs.to]
    ELSE /\ ~callResult.relative.absolute
         /\ callResult.relative.search = callArgs.to.search
         /\ callResult.relative.hash = callArgs.to.hash

\* C12 as amended: relative(from, to) is to unchanged whenever to has a
\* protocol, host, slashes or auth that is not that of from; else, also
\* where from has an auth and to has none, it is a path-relative URL with
\* the query and fragment of to.
ThmC12_AbsoluteWhenConflicting ==
  callResult.outcome = "relative" =>
    LET f == callArgs.from
        t == callArgs.to
    IN IF DiffersInOrigin(f, t) /\ ~(t.auth = Absent /\ SameSchemeAndHost(f, t))
       THEN callResult.relative = [absolute |-> TRUE, url |-> t]
       ELSE /\ ~callResult.relative.absolute
            /\ callResult.relative.search = t.search
            /\ callResult.relative.hash = t.hash

\* relative() of a URL on another host is the URL itself.
WitC12_OtherHostKept ==
  /\ callResult.outcome = "relative"
  /\ callArgs.from.host = "h"
  /\ callArgs.to.host = "g"
  /\ callResult.relative = [absolute |-> TRUE, url |-> callArgs.to]

-----------------------------------------------------------------------------
(* PackageUrlResolver.resolve of a file-relative URL against a base inside *)
(* the package: the join of base and URL, then the redirect of what lies   *)
(* in the parent of the package into the component directory.              *)

\* Most segments of the file-relative URL.
MaxUrlLen == 4

\* packageDir '/1/2'
PackageDir == <<<<"1">>, <<"2">>>>

\* The directory that holds the package: pathlib.dirname(packageDir)
ParentOfPackageDir == SubSeq(PackageDir, 1, Len(PackageDir) - 1)

\* componentDir, 'bower_components' unless configured
ComponentDir == <<"c">>

Foo == <<"f">>

FooHtml == <<"h">>

\* The package root 'file:///1/2/' and a file in a directory of the package.
PackageBases ==
  {Append(PackageDir, EmptySegment), PackageDir \o <<Foo, FooHtml>>}

\* File-relative URLs such as '../foo/foo.html' by their segments.
FileRelativeUrls ==
  {u \in BoundedSeq({DotDot, Foo, FooHtml}, MaxUrlLen) : Len(u) >= 1}

IsPrefix(p, q) == Len(p) <= Len(q) /\ SubSeq(q, 1, Len(p)) = p

\* The join of the base and the URL with its dot segments resolved.
JoinedPath(url, base) == RemoveDots(FromDir(base) \o url)

\* A resolver that leaves what lies beside the package where it is
PackageResolveNoRedirect(url, base) == JoinedPath(url, base)

\* PackageUrlResolver.resolve(url, base): a path in the package stays; a
\* path in the parent of the package goes to the component directory; a
\* path further up stays.
PackageResolve(url, base) ==
  LET joined == JoinedPath(url, base)
  IN IF IsPrefix(PackageDir, joined)
     THEN joined
     ELSE IF IsPrefix(ParentOfPackageDir, joined)
     THEN PackageDir \o <<ComponentDir>>
            \o SubSeqOrEmpty(joined, Len(ParentOfPackageDir) + 1, Len(joined))
     ELSE joined

CallPackageResolve ==
  /\ callArgs.op = "resolve"
  /\ callResult = Pending
  /\ callResult' = [outcome |-> "resolved",
                    resolved |-> PackageResolve(callArgs.url, callArgs.base)]
  /\ UNCHANGED <<docVars, scanVars, callArgs>>

InitPackage ==
  /\ scanned = [d \in AllDocs |-> <<>>]
  /\ InitDocuments
  /\ InitScan
  /\ callArgs \in {[op |-> "resolve", url |-> u, base |-> b] :
                     u \in FileRelativeUrls, b \in PackageBases}
  /\ callResult = Pending

NextPackage == CallPackageResolve

SpecPackage == InitPackage /\ [][NextPackage]_vars

-----------------------------------------------------------------------------
(* C13 *)

\* C13: a URL that stays in the package P resolves in P, to the plain join
\* of base and URL; a URL that ends in the directory that holds P resolves
\* to P/C/ followed by its path in that directory, '../foo/foo.html' from
\* the root of P to P/C/foo/foo.html; a URL that ends further up resolves to
\* the plain join, outside P.
ThmC13_SiblingToComponentDir ==
  callResult.outcome = "resolved" =>
    LET joined == JoinedPath(callArgs.url, callArgs.base)
        out == callResult.resolved
    IN /\ IsPrefix(PackageDir, joined) => out = joined
       /\ (callArgs.url = <<DotDot, Foo, FooHtml>>
             /\ callArgs.base = Append(PackageDir, EmptySegment))
            => out = PackageDir \o <<ComponentDir, Foo, FooHtml>>
       /\ (~IsPrefix(PackageDir, joined)
             /\ IsPrefix(ParentOfPackageDir, joined))
            => /\ IsPrefix(Append(PackageDir, ComponentDir), out)
               /\ SubSeqOrEmpty(out, Len(PackageDir) + 2, Len(out))
                    = SubSeqOrEmpty(joined, Len(ParentOfPackageDir) + 1,
                                    Len(joined))
       /\ (callArgs.url = <<DotDot, DotDot, Foo, FooHtml>>
             /\ callArgs.base = Append(PackageDir, EmptySegment))
            => out = <<Foo, FooHtml>>
       /\ ~IsPrefix(ParentOfPackageDir, joined)
            => out = joined /\ ~IsPrefix(PackageDir, out)

\* '../foo/foo.html' was resolved against the root of the package.
WitC13_SiblingResolved ==
  /\ callResult.outcome = "resolved"
  /\ callArgs.url = <<DotDot, Foo, FooHtml>>
  /\ callArgs.base = Append(PackageDir, EmptySegment)
  /\ callResult.resolved = <<<<"1">>, <<"2">>, ComponentDir, Foo, FooHtml>>

-----------------------------------------------------------------------------
(* FSUrlLoader: canLoad, _isValid and getFilePath.                         *)
(*                                                                         *)
(* A path is a record of whether it starts with a slash and of its         *)
(* segments, the last of which is empty where the path ends with a slash.  *)

\* Most segments of the pathname of a URL handed to the loader.
MaxLoadLen == 3

\* '%2e%2e', which decodeURIComponent turns into '..'
EncodedDotDot == <<"%", "2", "e", "%", "2", "e">>

\* The configured root of the loader, '/r'
Root == <<<<"r">>>>

LoadProtocols == {Absent, "file:", "http:"}

LoadHostnames == {Absent, "h"}

\* The segments of the pathnames handed to the loader.
LoadSegments ==
  {p \in BoundedSeq({DotDot, EncodedDotDot, <<"a">>, EmptySegment}, MaxLoadLen) :
     \A j \in 1..(Len(p) - 1) : p[j] # EmptySegment}

\* parseUrl(url) by the three parts the loader reads; a URL without a
\* pathname has no segments.
LoadUrls ==
  {[protocol |-> pr, hostname |-> h, absolute |-> ab, segments |-> p] :
     pr \in LoadProtocols, h \in LoadHostnames, ab \in BOOLEAN,
     p \in LoadSegments}

\* decodeURIComponent(pathname)
DecodeURIComponent(segments) ==
  [j \in 1..Len(segments) |->
     IF segments[j] = EncodedDotDot THEN DotDot ELSE segments[j]]

RECURSIVE NormalizeFrom(_, _, _)
\* normalizeString of path.posix: '..' takes back the segment before it,
\* stays where there is none to take back in a relative path, and is
\* dropped at the root of an absolute one.
NormalizeFrom(done, rest, absolute) ==
  IF rest = <<>> THEN done
  ELSE IF Head(rest) \in {Dot, EmptySegment}
  THEN NormalizeFrom(done, Tail(rest), absolute)
  ELSE IF Head(rest) = DotDot
  THEN IF done # <<>> /\ done[Len(done)] # DotDot
       THEN NormalizeFrom(SubSeqOrEmpty(done, 1, Len(done) - 1), Tail(rest),
                          absolute)
       ELSE IF absolute
       THEN NormalizeFrom(done, Tail(rest), absolute)
       ELSE NormalizeFrom(Append(done, DotDot), Tail(rest), absolute)
  ELSE NormalizeFrom(Append(done, Head(rest)), Tail(rest), absolute)

\* pathlib.normalize(path): the empty relative path is '.', and a trailing
\* slash stays.
Normalize(absolute, segments) ==
  LET kept == NormalizeFrom(<<>>, segments, absolute)
      trailing == segments # <<>> /\ segments[Len(segments)] = EmptySegment
  IN [absolute |-> absolute,
      segments |->
        IF kept = <<>>
        THEN IF absolute THEN <<>>
             ELSE IF trailing THEN <<Dot, EmptySegment>> ELSE <<Dot>>
        ELSE IF trailing THEN Append(kept, EmptySegment) ELSE kept]

\* pathname.startsWith('../')
StartsWithDotDotSlash(pathname) ==
  /\ ~pathname.absolute
  /\ Len(pathname.segments) >= 2
  /\ pathname.segments[1] = DotDot

\* FSUrlLoader._isValid(urlObject, pathname); protocol is 'file:' for a file
\* URL, never 'file'.
IsValid(urlObject, pathname) ==
  /\ urlObject.protocol = "file" \/ urlObject.hostname = Absent
  /\ ~StartsWithDotDotSlash(pathname)

\* The normalised, decoded pathname of canLoad and getFilePath.
LoadPathname(urlObject) ==
  Normalize(urlObject.absolute, DecodeURIComponent(urlObject.segments))

\* FSUrlLoader.canLoad(url)
CanLoad(urlObject) == IsValid(urlObject, LoadPathname(urlObject))

\* pathlib.join(root, pathname)
Join(root, pathname) ==
  Normalize(TRUE, root \o pathname.segments)

\* FSUrlLoader.getFilePath(url) with a root configured
GetFilePath(urlObject) ==
  IF ~IsValid(urlObject, LoadPathname(urlObject))
  THEN [outcome |-> "threw", message |-> "Invalid URL"]
  ELSE [outcome |-> "returned", path |-> Join(Root, LoadPathname(urlObject))]

CallCanLoad ==
  /\ callArgs.op = "load"
  /\ callResult = Pending
  /\ callResult' = [outcome |-> "canLoad", canLoad |-> CanLoad(callArgs.url)]
  /\ UNCHANGED <<docVars, scanVars, callArgs>>

CallGetFilePath ==
  /\ callArgs.op = "load"
  /\ callResult.outcome = "canLoad"
  /\ callResult' = GetFilePath(callArgs.url) @@ [canLoad |-> callResult.canLoad]
  /\ UNCHANGED <<docVars, scanVars, callArgs>>

InitLoader ==
  /\ scanned = [d \in AllDocs |-> <<>>]
  /\ InitDocuments
  /\ InitScan
  /\ callArgs \in {[op |-> "load", url |-> u] : u \in LoadUrls}
  /\ callResult = Pending

NextLoader ==
  \/ CallCanLoad
  \/ CallGetFilePath

SpecLoader == InitLoader /\ [][NextLoader]_vars

-----------------------------------------------------------------------------
(* C14 *)

\* The path is the root or lies below it.
InsideRoot(path) == path.absolute /\ IsPrefix(Root, path.segments)

\* C14 as stated: the loader accepts a URL only if it has the file: scheme
\* or no host and its decoded, normalised path stays inside the root; a URL
\* whose '..' segments escape the root is rejected, canLoad false and
\* getFilePath throwing 'Invalid URL'; no path getFilePath returns lies
\* outside the root.
CexC14_NoPathOutsideRoot ==
  callResult.outcome \in {"returned", "threw"} =>
    LET u == callArgs.url
        escapes == ~InsideRoot(Join(Root, LoadPathname(u)))
    IN /\ callResult.canLoad <=> callResult.outcome = "returned"
       /\ callResult.canLoad =>
            (u.protocol = "file:" \/ u.hostname = Absent) /\ ~escapes
       /\ escapes => ~callResult.canLoad /\ callResult.message = "Invalid URL"
       /\ callResult.outcome = "returned" => InsideRoot(callResult.path)

-----------------------------------------------------------------------------
(* NamespaceScanner.scan over the object-literal assignments of a script,  *)
(* as the tests of the scanner pin it.                                     *)

\* Most object-literal assignments of a script.
MaxStatements == 3

UnableToDetermineName == "Unable to determine name for @namespace"

\* The @namespace annotation of an assignment: none, one without a name,
\* one with a name.
NamespaceAnnotations == {"none", "unnamed", "named"}

\* The target of the assignment: a name or a chain of names, a subscript
\* that is a string literal (DynamicNamespace['ArrayNotation']), a subscript
\* that is not (DynamicNamespace[baz]).
NamespaceTargets == {"static", "literal-subscript", "dynamic-subscript"}

NamespaceStatements ==
  {[annotation |-> a, target |-> t] :
     a \in NamespaceAnnotations, t \in NamespaceTargets}

NamespaceScripts == BoundedSeq(NamespaceStatements, MaxStatements)

\* The name of the namespace: that of the annotation, else that of the
\* target where it can be read off the source, else none.
NamespaceName(statement) ==
  IF statement.annotation = "named" THEN "annotated"
  ELSE IF statement.target # "dynamic-subscript" THEN "implied"
  ELSE Absent

ScannedNamespace(statement, j) ==
  [name |-> NamespaceName(statement), idx |-> j, warnings |-> <<>>]

RECURSIVE ScanNamespacesSkipping(_, _, _)
\* A scan that passes over a namespace it cannot name and warns
ScanNamespacesSkipping(statements, j, found) ==
  IF j > Len(statements)
  THEN found
  ELSE IF statements[j].annotation = "none"
  THEN ScanNamespacesSkipping(statements, j + 1, found)
  ELSE IF NamespaceName(statements[j]) = Absent
  THEN ScanNamespacesSkipping(statements, j + 1,
         [found EXCEPT !.warnings =
            Append(@, [message |-> UnableToDetermineName, idx |-> j])])
  ELSE ScanNamespacesSkipping(statements, j + 1,
         [found EXCEPT !.features = Append(@, ScannedNamespace(statements[j], j))])

RECURSIVE ScanNamespaces(_, _, _)
\* The visit of the statements in source order: an annotated assignment
\* gives a ScannedNamespace; one that cannot be named ends the scan with an
\* exception.
ScanNamespaces(statements, j, found) ==
  IF j > Len(statements)
  THEN found
  ELSE IF statements[j].annotation = "none"
  THEN ScanNamespaces(statements, j + 1, found)
  ELSE IF NamespaceName(statements[j]) = Absent
  THEN [outcome |-> "threw", message |-> UnableToDetermineName, idx |-> j]
  ELSE ScanNamespaces(statements, j + 1,
         [found EXCEPT !.features = Append(@, ScannedNamespace(statements[j], j))])

\* NamespaceScanner.scan(document, visit)
CallScanNamespaces ==
  /\ callArgs.op = "scanNamespaces"
  /\ callResult = Pending
  /\ callResult' =
       ScanNamespaces(callArgs.script, 1,
                      [outcome |-> "returned", features |-> <<>>,
                       warnings |-> <<>>])
  /\ UNCHANGED <<docVars, scanVars, callArgs>>

InitNamespace ==
  /\ scanned = [d \in AllDocs |-> <<>>]
  /\ InitDocuments
  /\ InitScan
  /\ callArgs \in {[op |-> "scanNamespaces", script |-> sc] :
                     sc \in NamespaceScripts}
  /\ callResult = Pending

NextNamespace == CallScanNamespaces

SpecNamespace == InitNamespace /\ [][NextNamespace]_vars

-----------------------------------------------------------------------------
(* C15 *)

\* The script assigns an object literal to a target with a subscript that
\* is no literal, under @namespace, and no annotation names it.
HasUnnamedDynamic(script) ==
  \E j \in 1..Len(script) :
    script[j].annotation = "unnamed" /\ script[j].target = "dynamic-subscript"

\* C15 as stated: the scan of such a script returns, and reports the failure
\* as a warning with the message 'Unable to determine name for @namespace';
\* no exception escapes.
CexC15_WarningNoException ==
  (callResult # Pending /\ HasUnnamedDynamic(callArgs.script)) =>
    /\ callResult.outcome = "returned"
    /\ \E j \in 1..Len(callResult.warnings) :
         callResult.warnings[j].message = UnableToDetermineName

\* C15 as amended: the scan of such a script fails: an exception with the
\* message 'Unable to determine name for @namespace' escapes scan(), which
\* returns neither features nor warnings; the scan of any other script
\* returns.
ThmC15_ScanThrows ==
  callResult # Pending =>
    IF HasUnnamedDynamic(callArgs.script)
    THEN /\ callResult.outcome = "threw"
         /\ callResult.message = UnableToDetermineName
         /\ LET st == callArgs.script[callResult.idx]
            IN st.annotation = "unnamed" /\ st.target = "dynamic-subscript"
    ELSE /\ callResult.outcome = "returned"
         /\ callResult.warnings = <<>>

\* The scan of a script with a namespace that has a name and, after it, one
\* with a dynamic subscript that has none threw.
WitC15_ThrewAfterNamed ==
  /\ callResult # Pending
  /\ Len(callArgs.script) = 2
  /\ NamespaceName(callArgs.script[1]) = "implied"
  /\ callArgs.script[1].annotation = "unnamed"
  /\ callArgs.script[2] = [annotation |-> "unnamed", target |-> "dynamic-subscript"]
  /\ callResult.outcome = "threw"

-----------------------------------------------------------------------------
(* ExpressionScanner: findDatabindingInString.  A string is the sequence   *)
(* of its characters; indexes are those of the source, from 0.             *)

\* Most pieces a string is put together from.
MaxPieces == 5

\* The pieces of the strings: openers, closers, and single characters.
Pieces ==
  {<<"{", "{">>, <<"}", "}">>, <<"[", "[">>, <<"]", "]">>, <<"x">>, <<"{">>,
   <<"}">>}

RECURSIVE Flatten(_)
Flatten(pieces) ==
  IF pieces = <<>> THEN <<>> ELSE Head(pieces) \o Flatten(Tail(pieces))

DatabindingStrings == {Flatten(ps) : ps \in BoundedSeq(Pieces, MaxPieces)}

\* str[index]
CharAt(str, index) == str[index + 1]

\* The two characters from index on are both c.
TwoAt(str, index, c) ==
  /\ index >= 0
  /\ index + 1 < Len(str)
  /\ CharAt(str, index) = c
  /\ CharAt(str, index + 1) = c

\* /{{|\[\[/ matches at index.
OpenerAt(str, index) == TwoAt(str, index, "{") \/ TwoAt(str, index, "[")

NotFound == 0 - 1

\* openers.exec(str) from lastIndex: the index of the match, or NotFound.
ExecOpeners(str, lastIndex) ==
  IF \E i \in lastIndex..(Len(str) - 2) : OpenerAt(str, i)
  THEN CHOOSE i \in lastIndex..(Len(str) - 2) :
         /\ OpenerAt(str, i)
         /\ \A k \in lastIndex..(i - 1) : ~OpenerAt(str, k)
  ELSE NotFound

\* The character of the closers of the opener at index.
CloserOf(str, index) == IF CharAt(str, index) = "{" THEN "}" ELSE "]"

\* str.indexOf(closers, startIndex)
IndexOfClosers(str, c, startIndex) ==
  IF \E i \in startIndex..(Len(str) - 2) : TwoAt(str, i, c)
  THEN CHOOSE i \in startIndex..(Len(str) - 2) :
         /\ TwoAt(str, i, c)
         /\ \A k \in startIndex..(i - 1) : ~TwoAt(str, k, c)
  ELSE NotFound

\* str.slice(startIndex, endIndex)
Slice(str, startIndex, endIndex) == SubSeqOrEmpty(str, startIndex + 1, endIndex)

RawDatabinding(str, startIndex, endIndex) ==
  [startIndex |-> startIndex, endIndex |-> endIndex,
   expressionText |-> Slice(str, startIndex, endIndex),
   direction |-> CharAt(str, startIndex - 2)]

RECURSIVE FindDatabindingPastUnclosed(_, _, _)
\* A loop that goes on to the next opener where the closers are absent
FindDatabindingPastUnclosed(str, lastIndex, expressions) ==
  LET index == ExecOpeners(str, lastIndex)
      startIndex == index + 2
      endIndex == IndexOfClosers(str, CloserOf(str, index), startIndex)
  IN IF index = NotFound THEN expressions
     ELSE IF endIndex = NotFound
     THEN FindDatabindingPastUnclosed(str, startIndex, expressions)
     ELSE FindDatabindingPastUnclosed(str, endIndex + 2,
            Append(expressions, RawDatabinding(str, startIndex, endIndex)))

RECURSIVE FindDatabindingFrom(_, _, _)
\* The loop of findDatabindingInString with openers.lastIndex at lastIndex.
FindDatabindingFrom(str, lastIndex, expressions) ==
  LET index == ExecOpeners(str, lastIndex)
      startIndex == index + 2
      endIndex == IndexOfClosers(str, CloserOf(str, index), startIndex)
  IN IF index = NotFound THEN expressions
     ELSE IF endIndex = NotFound THEN expressions
     ELSE FindDatabindingFrom(str, endIndex + 2,
            Append(expressions, RawDatabinding(str, startIndex, endIndex)))

\* findDatabindingInString(str)
FindDatabindingInString(str) == FindDatabindingFrom(str, 0, <<>>)

\* The extraction of the databindings of one text node or attribute value:
\* the expressions found, and no warning.
CallFindDatabinding ==
  /\ callArgs.op = "findDatabindingInString"
  /\ callResult = Pending
  /\ callResult' = [outcome |-> "returned",
                    expressions |-> FindDatabindingInString(callArgs.str),
                    warnings |-> <<>>]
  /\ UNCHANGED <<docVars, scanVars, callArgs>>

InitDatabinding ==
  /\ scanned = [d \in AllDocs |-> <<>>]
  /\ InitDocuments
  /\ InitScan
  /\ callArgs \in {[op |-> "findDatabindingInString", str |-> str] :
                     str \in DatabindingStrings}
  /\ callResult = Pending

NextDatabinding == CallFindDatabinding

SpecDatabinding == InitDatabinding /\ [][NextDatabinding]_vars

-----------------------------------------------------------------------------
(* C16 *)

\* The opener at index has no closers of its kind anywhere after it.
Unclosed(str, index) ==
  /\ OpenerAt(str, index)
  /\ IndexOfClosers(str, CloserOf(str, index), index + 2) = NotFound

\* The index lies in an expression found, between its opener and the end of
\* its closers: the scan does not look for an opener there.
InExpression(expressions, index) ==
  \E j \in 1..Len(expressions) :
    /\ expressions[j].startIndex - 2 < index
    /\ index < expressions[j].endIndex + 2

\* C16: where an opener that the scan comes to, one outside the expressions
\* already found, has no matching closer anywhere after it, the scan of the
\* string stops there: no expression is given for it or for an opener after
\* it, the expressions found before it are kept, those that the string up
\* to the opener gives, and there is no warning; '[[x' gives no expression.
ThmC16_StopsAtUnclosedOpener ==
  callResult # Pending =>
    LET str == callArgs.str
        expressions == callResult.expressions
    IN /\ \A o \in 0..(Len(str) - 2) :
            (Unclosed(str, o) /\ ~InExpression(expressions, o)) =>
              /\ \A j \in 1..Len(expressions) :
                   expressions[j].endIndex + 2 <= o
              /\ expressions = FindDatabindingInString(SubSeqOrEmpty(str, 1, o))
              /\ callResult.warnings = <<>>
       /\ str = <<"[", "[", "x">> => expressions = <<>> /\ callResult.warnings = <<>>
       /\ \A j \in 1..Len(expressions) :
            /\ OpenerAt(str, expressions[j].startIndex - 2)
            /\ TwoAt(str, expressions[j].endIndex,
                     CloserOf(str, expressions[j].startIndex - 2))

\* An expression was found, and the scan stopped at an opener without
\* closers that has a complete expression after it.
WitC16_StoppedBeforeLater ==
  /\ callResult # Pending
  /\ callArgs.str = <<"{", "{", "}", "}", "[", "[", "{", "{", "}", "}">>
  /\ Len(callResult.expressions) = 1

-----------------------------------------------------------------------------
(* C17 *)

\* The activations of resolve() on the document.
ActivationsOf(d) == {j \in 1..Len(stack) : stack[j].doc = d}

\* No activation starts or ends and none moves in its loop.
LoopsWhereTheyWere ==
  /\ Len(stack') = Len(stack)
  /\ \A j \in 1..Len(stack) :
       stack'[j].doc = stack[j].doc /\ stack'[j].idx = stack[j].idx

\* C17: a call of resolve() on a document that has begun and not finished
\* resolving, reached through a cyclic import, returns at once without an
\* error and changes nothing: the local features and the two flags of the
\* document stay as they are, and no scanned feature is resolved a second
\* time, since the one activation of the document stays where it is in its
\* loop and no second one starts.
ThmC17_ReentrantCallReturns ==
  /\ [](\A d \in AllDocs :
          /\ Cardinality(ActivationsOf(d)) <= 1
          /\ ActivationsOf(d) # {} <=> (begunResolving[d] /\ ~doneResolving[d]))
  /\ [][\A d \in AllDocs :
          (IsCall("resolve", d) /\ begunResolving[d] /\ ~doneResolving[d]) =>
            /\ lastCall'.outcome = "returned"
            /\ DocumentUntouched(d)
            /\ LoopsWhereTheyWere
            /\ localFeatures' = localFeatures]_vars

\* In a cycle of two documents the second called resolve() on the first,
\* which was in its loop, and the call returned.
WitC17_CycleCutAtFirst ==
  /\ MutualImport("a", "b")
  /\ Len(stack) = 2
  /\ stack[1].doc = "a"
  /\ stack[2].doc = "b"
  /\ stack[2].pc = "called"
  /\ lastCall = Call("resolve", "a", "returned")
  /\ begunResolving["a"] /\ ~doneResolving["a"]

-----------------------------------------------------------------------------
(* C18 *)

\* _featuresByKind and _featuresByKindAndId of the document are built.
Indexed(d) == featuresByKind[d] # NullIndex

\* The indexes of the document hold the feature under each of its kinds and
\* under each of its kinds and identifiers.
IndexHolds(d, f) ==
  \A k \in Kinds(f) :
    /\ f \in Range(featuresByKind[d][k])
    /\ \A id \in Identifiers(f) : f \in Range(featuresByKindAndId[d][k][id])

\* C18: the indexes of a document are never built before resolution is
\* complete: the step that builds them is taken when the document and every
\* document it reaches through Import and Document features are done
\* resolving, and so gain no feature; and whenever the indexes exist, both
\* exist, the closure is done and the indexes miss no feature of the closure.
ThmC18_IndexesOfCompleteView ==
  /\ [](\A d \in AllDocs :
          /\ Indexed(d) <=> featuresByKindAndId[d] # NullIndex
          /\ Indexed(d) =>
               /\ ClosureDone(d)
               /\ \A f \in ClosureFeatures(d) : IndexHolds(d, f))
  /\ [][\A d \in AllDocs :
          (~Indexed(d) /\ featuresByKind'[d] # NullIndex) =>
            /\ ClosureDone(d)
            /\ \A e \in Reach(d) : ActivationsOf(e) = {}]_vars

\* The indexes of a document of an import cycle are built and hold the
\* features of the other document of the cycle.
WitC18_CycleIndexed ==
  /\ MutualImport("a", "b")
  /\ Indexed("a")
  /\ DocumentFeature("b") \in Range(featuresByKind["a"]["document"])
  /\ Len(featuresByKind["a"]["import"]) = 2

-----------------------------------------------------------------------------
(* C19 *)

\* Where the feature is in the iteration order of the Set.
PositionIn(s, f) == CHOOSE j \in 1..Len(s) : s[j] = f

\* The feature is local to the document.
IsLocal(d, f) == f \in Range(localFeatures[d])

\* The document an Import or a Document feature leads the traversal to.
TargetOf(f) == IF f.type = "import" THEN f.document ELSE f.url

\* The documents the traversal comes to from e without passing through d.
ReachAvoiding(e, d) ==
  ReachFrom([x \in AllDocs |-> IF x = d THEN <<>> ELSE localFeatures[x]], {e})

\* The features the queried document d receives through the document e.
ContributedBy(e, d) ==
  UNION {Range(localFeatures[x]) : x \in ReachAvoiding(e, d)}
    \ Range(localFeatures[d])

\* Every local feature of d comes before every feature that is not local.
LocalFirst(d, s) ==
  \A i, j \in 1..Len(s) : (IsLocal(d, s[i]) /\ ~IsLocal(d, s[j])) => i < j

-----------------------------------------------------------------------------
(* C20 *)

\* resolve() of the document on top has called ScannedImport.resolve, which
\* has the answer of _getDocument in hand.
ImportLookedUp ==
  /\ stack # <<>>
  /\ Top.pc = "called"
  /\ TopFeature.type = "import"

\* The Import features the step adds to the local features of the document.
ImportsAdded(d) ==
  {f \in Range(localFeatures'[d]) \ Range(localFeatures[d]) : f.type = "import"}

\* C20: resolving a ScannedImport looks the target up by the URL of the
\* import.  Where a Document is allocated for the URL, done resolving or
\* not, one Import whose url and document are that target is added to the
\* local features of the importing document; where none is, no feature is
\* added and nothing is thrown.  Either way the loop goes on to the next
\* scanned feature.
ThmC20_ImportOfAllocatedTarget ==
  [][ImportLookedUp =>
       LET d == Top.doc
           url == TopFeature.url
       IN /\ Top.ret = (IF url \in Urls THEN url ELSE "undefined")
          /\ lastCall'.outcome # "threw"
          /\ stack' = Advance
          /\ IF url \in Urls
             THEN /\ ImportsAdded(d) = {ImportFeature(d, Top.idx, url)}
                  /\ localFeatures'[d] =
                       Append(localFeatures[d], ImportFeature(d, Top.idx, url))
                  /\ \A f \in ImportsAdded(d) : f.document = url /\ f.url = url
             ELSE localFeatures' = localFeatures]_vars

\* In a cycle the Import of the document that began the cycle was added
\* while that document was still resolving.
WitC20_ImportOfUnresolvedTarget ==
  /\ MutualImport("a", "b")
  /\ lastCall = Call("addFeature", "b", "returned")
  /\ HoldsImportOf("b", "a")
  /\ begunResolving["a"] /\ ~doneResolving["a"]

-----------------------------------------------------------------------------
(* ExpressionScanner: the databindings of a text node and of an attribute  *)
(* value, as handed to the constructor of ScannedDatabindingExpression.    *)

\* Most pieces a text or an attribute value is put together from.
MaxExtractPieces == 5

Newline == "\n"

\* The pieces of the values: openers, closers, a character, colons, newline.
ExtractPieces ==
  {<<"{", "{">>, <<"}", "}">>, <<"[", "[">>, <<"]", "]">>, <<"x">>, <<":">>,
   <<":", ":">>, <<Newline>>}

ExtractStrings == {Flatten(ps) : ps \in BoundedSeq(ExtractPieces, MaxExtractPieces)}

\* undefined as an event name.
NoEventName == [defined |-> FALSE]

\* The places of the text where /(.*)::(.*)/ can have its two colons: both
\* on one line with the start of the match, which is the start of a line.
ColonsAt(text) == {i \in 0..(Len(text) - 2) : TwoAt(text, i, ":")}

\* The index the line of index i starts at.
LineStart(text, i) ==
  IF \E k \in 0..(i - 1) : CharAt(text, k) = Newline
  THEN 1 + CHOOSE k \in 0..(i - 1) :
             /\ CharAt(text, k) = Newline
             /\ \A l \in (k + 1)..(i - 1) : CharAt(text, l) # Newline
  ELSE 0

\* The index the line of index i ends before.
LineEnd(text, i) ==
  IF \E k \in i..(Len(text) - 1) : CharAt(text, k) = Newline
  THEN CHOOSE k \in i..(Len(text) - 1) :
         /\ CharAt(text, k) = Newline
         /\ \A l \in i..(k - 1) : CharAt(text, l) # Newline
  ELSE Len(text)

\* expressionText.match(/(.*)::(.*)/): the leftmost match starts the first
\* line that holds two colons, and the greedy first group ends at the last
\* two colons of that line.
MatchEventName(text) ==
  IF ColonsAt(text) = {} THEN [matched |-> FALSE]
  ELSE LET first == CHOOSE i \in ColonsAt(text) : \A k \in ColonsAt(text) : i <= k
           from == LineStart(text, first)
           to == LineEnd(text, first)
           onLine == {i \in ColonsAt(text) : from <= i /\ i + 2 <= to}
           last == CHOOSE i \in onLine : \A k \in onLine : k <= i
       IN [matched |-> TRUE,
           expr |-> Slice(text, from, last),
           eventName |-> Slice(text, last + 2, to)]

\* One that takes the event name of a text node binding as of an attribute's
TextNodeExpressionCarved(dataBinding) ==
  LET match == MatchEventName(dataBinding.expressionText)
      carved == dataBinding.direction = "{" /\ match.matched
  IN [inAttribute |-> FALSE,
      startIndex |-> dataBinding.startIndex,
      endIndex |-> dataBinding.endIndex,
      direction |-> dataBinding.direction,
      expressionText |-> IF carved THEN match.expr
                                   ELSE dataBinding.expressionText,
      eventName |-> IF carved THEN [defined |-> TRUE, name |-> match.eventName]
                              ELSE NoEventName,
      databindingInto |-> "string-interpolation"]

\* new ScannedDatabindingExpression(node, undefined, ..., direction,
\*   expressionText, undefined, 'string-interpolation')
TextNodeExpression(dataBinding) ==
  [inAttribute |-> FALSE,
   startIndex |-> dataBinding.startIndex,
   endIndex |-> dataBinding.endIndex,
   direction |-> dataBinding.direction,
   expressionText |-> dataBinding.expressionText,
   eventName |-> NoEventName,
   databindingInto |-> "string-interpolation"]

\* One that takes every binding of an attribute for a full one
AttrExpressionAlwaysFull(value, dataBinding) ==
  LET match == MatchEventName(dataBinding.expressionText)
      carved == dataBinding.direction = "{" /\ match.matched
  IN [inAttribute |-> TRUE,
      startIndex |-> dataBinding.startIndex,
      endIndex |-> dataBinding.endIndex,
      direction |-> dataBinding.direction,
      expressionText |-> IF carved THEN match.expr
                                   ELSE dataBinding.expressionText,
      eventName |-> IF carved THEN [defined |-> TRUE, name |-> match.eventName]
                              ELSE NoEventName,
      databindingInto |-> "attribute"]

\* The body of the loop of _extractDataBindingsFromAttr.
AttrExpression(value, dataBinding) ==
  LET isFullAttributeBinding == /\ dataBinding.startIndex = 2
                                /\ dataBinding.endIndex + 2 = Len(value)
      match == MatchEventName(dataBinding.expressionText)
      carved == dataBinding.direction = "{" /\ match.matched
  IN [inAttribute |-> TRUE,
      startIndex |-> dataBinding.startIndex,
      endIndex |-> dataBinding.endIndex,
      direction |-> dataBinding.direction,
      expressionText |-> IF carved THEN match.expr
                                   ELSE dataBinding.expressionText,
      eventName |-> IF carved THEN [defined |-> TRUE, name |-> match.eventName]
                              ELSE NoEventName,
      databindingInto |-> IF isFullAttributeBinding THEN "attribute"
                                                    ELSE "string-interpolation"]

\* _extractDataBindingsFromTextNode: what is pushed to results.
ExtractDataBindingsFromTextNode(text) ==
  LET dataBindings == FindDatabindingInString(text)
  IN [j \in 1..Len(dataBindings) |-> TextNodeExpression(dataBindings[j])]

\* _extractDataBindingsFromAttr: what is pushed to results.
ExtractDataBindingsFromAttr(value) ==
  LET dataBindings == FindDatabindingInString(value)
  IN IF value = <<>> THEN <<>>
     ELSE [j \in 1..Len(dataBindings) |-> AttrExpression(value, dataBindings[j])]

CallExtractFromTextNode ==
  /\ callArgs.op = "extractFromTextNode"
  /\ callResult = Pending
  /\ callResult' = [outcome |-> "returned",
                    results |-> ExtractDataBindingsFromTextNode(callArgs.str)]
  /\ UNCHANGED <<docVars, scanVars, callArgs>>

CallExtractFromAttr ==
  /\ callArgs.op = "extractFromAttr"
  /\ callResult = Pending
  /\ callResult' = [outcome |-> "returned",
                    results |-> ExtractDataBindingsFromAttr(callArgs.str)]
  /\ UNCHANGED <<docVars, scanVars, callArgs>>

InitExtract ==
  /\ scanned = [d \in AllDocs |-> <<>>]
  /\ InitDocuments
  /\ InitScan
  /\ callArgs \in {[op |-> op, str |-> str] :
                     op \in {"extractFromTextNode", "extractFromAttr"},
                     str \in ExtractStrings}
  /\ callResult = Pending

NextExtract == CallExtractFromTextNode \/ CallExtractFromAttr

SpecExtract == InitExtract /\ [][NextExtract]_vars

-----------------------------------------------------------------------------
(* C21 *)

\* The binding is all of the value: its opener starts the value and its
\* closers end it.
SpansWholeValue(value, e) == e.startIndex = 2 /\ e.endIndex = Len(value) - 2

\* C21: a databinding found in an attribute value has databindingInto
\* 'attribute' if and only if it spans the whole value, the expression
\* starting at offset 2 and its closers at length - 2; every other binding
\* of an attribute and every binding of a text node has
\* 'string-interpolation'.
ThmC21_AttributeIffWholeValue ==
  callResult # Pending =>
    \A j \in 1..Len(callResult.results) :
      LET e == callResult.results[j]
          whole == e.inAttribute /\ SpansWholeValue(callArgs.str, e)
      IN /\ e.inAttribute <=> callArgs.op = "extractFromAttr"
         /\ e.databindingInto = "attribute" <=> whole
         /\ e.databindingInto = "string-interpolation" <=> ~whole
         /\ whole => Len(callResult.results) = 1

\* An attribute value of two bindings, the first of which starts at offset
\* 2 and the second of which ends the value: both are interpolations.
WitC21_TwoBindingsInAttribute ==
  /\ callResult # Pending
  /\ callArgs.op = "extractFromAttr"
  /\ callArgs.str = <<"{", "{", "x", "}", "}", "[", "[", "]", "]">>
  /\ Len(callResult.results) = 2
  /\ \A j \in 1..2 : callResult.results[j].databindingInto = "string-interpolation"

-----------------------------------------------------------------------------
(* C22 *)

\* The text between the opener and the closers of the binding.
InnerText(str, e) == Slice(str, e.startIndex, e.endIndex)

\* The line is a whole line of the text, and the first that holds '::'.
FirstLineWithColons(text, line) ==
  \E from \in 0..Len(text) :
    LET to == from + Len(line)
    IN /\ to <= Len(text)
       /\ Slice(text, from, to) = line
       /\ from = 0 \/ CharAt(text, from - 1) = Newline
       /\ to = Len(text) \/ CharAt(text, to) = Newline
       /\ \A i \in ColonsAt(text) : from <= i

-----------------------------------------------------------------------------
(* ExpressionScanner: findNewlineIndexes and indexesToSourceRange.         *)

\* Longest text whose offsets are mapped.
MaxTextLen == 4

Texts == BoundedSeq({"x", Newline}, MaxTextLen)

RECURSIVE FindNewlineIndexesFrom(_, _, _)
\* The loop of findNewlineIndexes: str.indexOf('\n', from) until it is -1.
FindNewlineIndexesFrom(str, from, indexes) ==
  IF \E i \in from..(Len(str) - 1) : CharAt(str, i) = Newline
  THEN LET index == CHOOSE i \in from..(Len(str) - 1) :
                      /\ CharAt(str, i) = Newline
                      /\ \A k \in from..(i - 1) : CharAt(str, k) # Newline
       IN FindNewlineIndexesFrom(str, index + 1, Append(indexes, index))
  ELSE indexes

\* findNewlineIndexes(str)
FindNewlineIndexes(str) == FindNewlineIndexesFrom(str, 0, <<>>)

RECURSIVE SourceRangeLoopAtOrBefore(_, _, _, _, _)
\* A loop that counts a newline at the offset itself as before it
SourceRangeLoopAtOrBefore(startIndex, endIndex, newlineIndexes, i, acc) ==
  IF i > Len(newlineIndexes) THEN acc
  ELSE LET index == newlineIndexes[i]
           a1 == IF index <= startIndex
                 THEN [acc EXCEPT !.startLine = @ + 1,
                                  !.startOfLineIndex = index + 1]
                 ELSE acc
       IN IF index <= endIndex
          THEN SourceRangeLoopAtOrBefore(startIndex, endIndex, newlineIndexes,
                 i + 1, [a1 EXCEPT !.endLine = @ + 1,
                                   !.endOfLineIndex = index + 1])
          ELSE a1

RECURSIVE SourceRangeLoop(_, _, _, _, _)
\* The loop of indexesToSourceRange over newlineIndexes from position i on,
\* with its break.
SourceRangeLoop(startIndex, endIndex, newlineIndexes, i, acc) ==
  IF i > Len(newlineIndexes) THEN acc
  ELSE LET index == newlineIndexes[i]
           a1 == IF index < startIndex
                 THEN [acc EXCEPT !.startLine = @ + 1,
                                  !.startOfLineIndex = index + 1]
                 ELSE acc
       IN IF index < endIndex
          THEN SourceRangeLoop(startIndex, endIndex, newlineIndexes, i + 1,
                 [a1 EXCEPT !.endLine = @ + 1, !.endOfLineIndex = index + 1])
          ELSE a1

\* indexesToSourceRange(startIndex, endIndex, filename, newlineIndexes)
IndexesToSourceRange(startIndex, endIndex, newlineIndexes) ==
  LET acc == SourceRangeLoop(startIndex, endIndex, newlineIndexes, 1,
               [startLine |-> 0, startOfLineIndex |-> 0,
                endLine |-> 0, endOfLineIndex |-> 0])
  IN [start |-> [line |-> acc.startLine,
                 column |-> startIndex - acc.startOfLineIndex],
      end |-> [line |-> acc.endLine,
               column |-> endIndex - acc.endOfLineIndex]]

CallIndexesToSourceRange ==
  /\ callArgs.op = "indexesToSourceRange"
  /\ callResult = Pending
  /\ callResult' =
       [outcome |-> "returned",
        newlineIndexes |-> FindNewlineIndexes(callArgs.str),
        sourceRange |-> IndexesToSourceRange(callArgs.startIndex,
                          callArgs.endIndex, FindNewlineIndexes(callArgs.str))]
  /\ UNCHANGED <<docVars, scanVars, callArgs>>

InitSourceRange ==
  /\ scanned = [d \in AllDocs |-> <<>>]
  /\ InitDocuments
  /\ InitScan
  /\ callArgs \in {[op |-> "indexesToSourceRange", str |-> str,
                    startIndex |-> a, endIndex |-> b] :
                     str \in Texts, a \in 0..MaxTextLen, b \in 0..MaxTextLen}
  /\ callArgs.startIndex <= callArgs.endIndex
  /\ callArgs.endIndex <= Len(callArgs.str)
  /\ callResult = Pending

NextSourceRange == CallIndexesToSourceRange

SpecSourceRange == InitSourceRange /\ [][NextSourceRange]_vars

-----------------------------------------------------------------------------
(* C23 *)

\* The newlines of the text strictly before the offset.
NewlinesBefore(str, offset) ==
  {k \in 0..(offset - 1) : CharAt(str, k) = Newline}

\* The position is the line and column of the offset in the text.
IsPositionOf(position, str, offset) ==
  /\ position.line = Cardinality(NewlinesBefore(str, offset))
  /\ position.column = offset - LineStart(str, offset)

\* C23: for every text, the sorted list of the offsets of its newlines and
\* every startIndex <= endIndex into it, the position returned for each
\* offset has for its line the number of newlines strictly before the
\* offset, counted from 0, and for its column the distance from the
\* character after the last of them, or from 0; and the end position is
\* not before the start position.
ThmC23_LineAndColumnOfOffsets ==
  callResult # Pending =>
    LET str == callArgs.str
        indexes == callResult.newlineIndexes
        range == callResult.sourceRange
    IN /\ Range(indexes) = {k \in 0..(Len(str) - 1) : CharAt(str, k) = Newline}
       /\ \A j \in 1..(Len(indexes) - 1) : indexes[j] < indexes[j + 1]
       /\ IsPositionOf(range.start, str, callArgs.startIndex)
       /\ IsPositionOf(range.end, str, callArgs.endIndex)
       /\ \/ range.start.line < range.end.line
          \/ /\ range.start.line = range.end.line
             /\ range.start.column <= range.end.column

\* The start is an offset right after a newline and the end one right at a
\* later newline, with a newline before both.
WitC23_OffsetsAtNewlines ==
  /\ callResult # Pending
  /\ callArgs.str = <<Newline, "x", Newline, "x">>
  /\ callArgs.startIndex = 1
  /\ callArgs.endIndex = 2
  /\ callResult.sourceRange =
       [start |-> [line |-> 1, column |-> 0], end |-> [line |-> 1, column |-> 1]]

-----------------------------------------------------------------------------
(* Polymer2ElementScanner: ElementVisitor._handleClass.  A class node is   *)
(* told by what the scanner reads of it: its name and the way it is bound, *)
(* the tags of its attached comment, its extends clause and its static is. *)

\* Most @extends tags of one comment.
MaxExtendsTags == 2

\* null, of a tag name, an identifier name or a superclass.
Null == "null"

\* A superclass expression that getIdentifierName gives no name for.
NotAnIdentifier == "call()"

ExtendsTagNames == {Null, "Ann"}

ClassNode(form, name, memberof, polymerElement, extendsTags, superClass, is) ==
  [type |-> "class", form |-> form, name |-> name, memberof |-> memberof,
   polymerElement |-> polymerElement, extendsTags |-> extendsTags,
   superClass |-> superClass, is |-> is]

\* getIdentifierName(node.superClass)
SuperClassName(superClass) ==
  IF superClass = NotAnIdentifier THEN Null ELSE superClass

\* A choice of the superclass that looks at the extends clause first
ExtendsOfClauseFirst(node) ==
  IF node.superClass # Null
  THEN [superClass |-> SuperClassName(node.superClass), from |-> "clause",
        warnings |-> <<>>]
  ELSE IF Len(node.extendsTags) > 0 /\ node.extendsTags[1] # Null
  THEN [superClass |-> node.extendsTags[1], from |-> "annotation",
        warnings |-> <<>>]
  ELSE [superClass |-> Null, from |-> "none", warnings |-> <<>>]

\* _handleClass: the choice of _extends and the warning.
ExtendsOf(node) ==
  IF Len(node.extendsTags) > 0
  THEN LET extendsId == node.extendsTags[1]
       IN IF extendsId = Null
          THEN [superClass |-> Null, from |-> "none",
                warnings |-> <<"class-extends-annotation-no-id">>]
          ELSE [superClass |-> extendsId, from |-> "annotation",
                warnings |-> <<>>]
  ELSE IF node.superClass # Null
  THEN LET extendsId == SuperClassName(node.superClass)
       IN IF extendsId # Null
          THEN [superClass |-> extendsId, from |-> "clause", warnings |-> <<>>]
          ELSE [superClass |-> Null, from |-> "none", warnings |-> <<>>]
  ELSE [superClass |-> Null, from |-> "none", warnings |-> <<>>]

\* _handleClass: the ScannedPolymerElement made of the class node, and
\* whether _hasPolymerDocTag lets it into _elements.
HandleClass(node) ==
  [element |-> [tagName |-> node.is, className |-> Null,
                superClass |-> ExtendsOf(node).superClass,
                superClassFrom |-> ExtendsOf(node).from,
                warnings |-> ExtendsOf(node).warnings],
   hasPolymerDocTag |-> node.polymerElement]

CallHandleClass ==
  /\ callArgs.op = "handleClass"
  /\ callResult = Pending
  /\ callResult' = [outcome |-> "returned"] @@ HandleClass(callArgs.node)
  /\ UNCHANGED <<docVars, scanVars, callArgs>>

InitHandleClass ==
  /\ scanned = [d \in AllDocs |-> <<>>]
  /\ InitDocuments
  /\ InitScan
  /\ callArgs \in
       {[op |-> "handleClass",
         node |-> ClassNode("declaration", "A", Null, pe, tags, sc, is)] :
          pe \in BOOLEAN,
          tags \in BoundedSeq(ExtendsTagNames, MaxExtendsTags),
          sc \in {Null, "Sup", NotAnIdentifier},
          is \in {Null, "t0"}}
  /\ callResult = Pending

NextHandleClass == CallHandleClass

SpecHandleClass == InitHandleClass /\ [][NextHandleClass]_vars

-----------------------------------------------------------------------------
(* C24 *)

\* C24: the superclass reference of a class that has an @extends annotation
\* comes from the annotation, also where the class has an extends clause;
\* the extends clause is used only where there is no @extends annotation;
\* an @extends annotation without an identifier adds the warning
\* 'class-extends-annotation-no-id' to the element and records no
\* superclass.
ThmC24_AnnotationBeforeClause ==
  callResult # Pending =>
    LET node == callArgs.node
        element == callResult.element
        annotated == Len(node.extendsTags) > 0
    IN /\ (annotated /\ node.extendsTags[1] # Null) =>
            /\ element.superClass = node.extendsTags[1]
            /\ element.superClassFrom = "annotation"
            /\ element.warnings = <<>>
       /\ (annotated /\ node.extendsTags[1] = Null) =>
            /\ element.superClass = Null
            /\ element.warnings = <<"class-extends-annotation-no-id">>
       /\ element.superClassFrom = "clause" =>
            /\ ~annotated
            /\ element.superClass = node.superClass
       /\ (~annotated /\ node.superClass \notin {Null, NotAnIdentifier}) =>
            element.superClassFrom = "clause"
       /\ ~annotated => element.warnings = <<>>

\* A class with an @extends annotation and an extends clause that name
\* different classes.
WitC24_BothPresent ==
  /\ callResult # Pending
  /\ callArgs.node.extendsTags = <<"Ann">>
  /\ callArgs.node.superClass = "Sup"
  /\ callResult.element.superClass = "Ann"

-----------------------------------------------------------------------------
(* Polymer2ElementScanner: the ElementVisitor over the class nodes and the *)
(* call expressions of one document, in the order the traversal enters     *)
(* them, and getRegisteredElements after the traversal.  An element is     *)
(* known by the position of the node it was made of.                       *)

\* Most class nodes and call expressions of a document.
MaxNodes == 3

ClassNames == {"A", "B"}

\* The names a class is looked up by: plain, or as a member of a namespace.
ElementNames == ClassNames \cup {"NS.A", "NS.B"}

TagNames == {"t1", "t2"}

\* namespaceIdentifierName(className, node): the name itself, or the name
\* in the namespace found for the node.
NamespaceIdentifierName(className, node) ==
  IF node.memberof = Null THEN className
  ELSE IF className = "A" THEN "NS.A" ELSE "NS.B"

\* A class as the scanner of the visitor reads it.
VisitedClass(form, name, memberof, polymerElement) ==
  ClassNode(form, name, memberof, polymerElement, <<>>, Null, Null)

\* The second argument of a call: an identifier or member expression of a
\* name, a class expression, or none.
Named(name) == [kind |-> "identifier", name |-> name]
ClassExpression(node) == [kind |-> "class", node |-> node]
NoArgument == [kind |-> "missing"]

\* callee(tagName, elementDefn)
CallNode(callee, tagName, elementDefn) ==
  [type |-> "call", callee |-> callee, tagName |-> tagName,
   elementDefn |-> elementDefn]

ClassNodes ==
  {VisitedClass("declaration", n, ns, pe) :
     n \in ClassNames, ns \in {Null, "NS"}, pe \in BOOLEAN}
    \cup {VisitedClass(f, "A", "NS", FALSE) : f \in {"assignment", "variable"}}
    \cup {VisitedClass("argument", "A", Null, pe) : pe \in BOOLEAN}

CallNodes ==
  {CallNode("customElements.define", t, Named(n)) :
     t \in TagNames, n \in {"A", "NS.A"}}
    \cup {CallNode("customElements.define", "t1", Named("B")),
          CallNode("window.customElements.define", "t1", Named("A")),
          CallNode("define", "t1", Named("A")),
          CallNode("customElements.define", Null, Named("A")),
          CallNode("customElements.define", "t1", NoArgument),
          CallNode("customElements.define", "t1",
                   ClassExpression(VisitedClass("argument", Null, Null, FALSE)))}

ElementScripts == BoundedSeq(ClassNodes \cup CallNodes, MaxNodes)

\* No element of the node at a position.
NoElement == [exists |-> FALSE]

\* new ElementVisitor(document)
NewVisitor ==
  [possibleElements |-> [n \in ElementNames |-> 0],
   registeredButNotFound |-> <<>>,
   elements |-> <<>>,
   element |-> [i \in 1..(MaxNodes + 1) |-> NoElement]]

\* Map.set: a key that is present keeps its place.
MapSet(entries, key, value) ==
  IF \E j \in 1..Len(entries) : entries[j].key = key
  THEN [j \in 1..Len(entries) |->
          IF entries[j].key = key THEN [key |-> key, value |-> value]
                                  ELSE entries[j]]
  ELSE Append(entries, [key |-> key, value |-> value])

\* this._handleClass(node) in the visitor: the element is made, and added
\* to _elements where the comment has @polymerElement.
VisitHandleClass(v, id, node) ==
  [v EXCEPT !.element[id] = [exists |-> TRUE] @@ HandleClass(node).element,
            !.elements = IF HandleClass(node).hasPolymerDocTag
                         THEN SetAdd(@, id) ELSE @]

\* The element is set on the namespaced and the unnamespaced name.
BindClass(v, id, className, node) ==
  LET namespacedClassName == NamespaceIdentifierName(className, node)
      handled == VisitHandleClass(v, id, node)
  IN [handled EXCEPT !.element[id].className = namespacedClassName,
                     !.possibleElements[namespacedClassName] = id,
                     !.possibleElements[className] = id]

\* enterClassExpression(node, parent)
EnterClassExpressionOf(v, id, node) ==
  IF node.form \notin {"assignment", "variable"} THEN v
  ELSE IF node.name = Null THEN v
  ELSE BindClass(v, id, node.name, node)

\* enterClassDeclaration(node)
EnterClassDeclarationOf(v, id, node) == BindClass(v, id, node.name, node)

\* _getElement(tagName, elementDefn): the visitor after the call and the
\* element returned, 0 for null.
GetElement(v, id, tagName, elementDefn) ==
  IF elementDefn.kind = "identifier"
  THEN LET className == elementDefn.name
       IN IF v.possibleElements[className] # 0
          THEN [visitor |-> [v EXCEPT !.possibleElements[className] = 0],
                element |-> v.possibleElements[className]]
          ELSE [visitor |-> [v EXCEPT !.registeredButNotFound =
                                         MapSet(@, className, tagName)],
                element |-> 0]
  ELSE [visitor |-> VisitHandleClass(v, id, elementDefn.node), element |-> id]

\* A visitor that adds the element of a define call under no tag name
EnterCallExpressionUntagged(v, id, node) ==
  IF node.callee \notin {"window.customElements.define", "customElements.define"}
  THEN v
  ELSE IF node.tagName = Null THEN v
  ELSE IF node.elementDefn = NoArgument THEN v
  ELSE LET got == GetElement(v, id, node.tagName, node.elementDefn)
       IN IF got.element = 0 THEN got.visitor
          ELSE [got.visitor EXCEPT !.elements = SetAdd(@, got.element)]

\* enterCallExpression(node)
EnterCallExpressionOf(v, id, node) ==
  IF node.callee \notin {"window.customElements.define", "customElements.define"}
  THEN v
  ELSE IF node.tagName = Null THEN v
  ELSE IF node.elementDefn = NoArgument THEN v
  ELSE LET got == GetElement(v, id, node.tagName, node.elementDefn)
       IN IF got.element = 0 THEN got.visitor
          ELSE [got.visitor EXCEPT !.element[got.element].tagName = node.tagName,
                                   !.elements = SetAdd(@, got.element)]

RECURSIVE RegisterFoundKeepingName(_, _)
\* A loop that leaves the className of the element as the class set it
RegisterFoundKeepingName(v, entries) ==
  IF entries = <<>> THEN v
  ELSE LET className == Head(entries).key
           tagName == Head(entries).value
           id == v.possibleElements[className]
       IN RegisterFoundKeepingName(
            IF id # 0
            THEN [v EXCEPT !.element[id].tagName = tagName,
                           !.elements = SetAdd(@, id)]
            ELSE v,
            Tail(entries))

RECURSIVE RegisterFound(_, _)
\* The loop of getRegisteredElements over _registeredButNotFound.entries().
RegisterFound(v, entries) ==
  IF entries = <<>> THEN v
  ELSE LET className == Head(entries).key
           tagName == Head(entries).value
           id == v.possibleElements[className]
       IN RegisterFound(
            IF id # 0
            THEN [v EXCEPT !.element[id].className = className,
                           !.element[id].tagName = tagName,
                           !.elements = SetAdd(@, id)]
            ELSE v,
            Tail(entries))

\* getRegisteredElements(): Array.from(this._elements)
GetRegisteredElements(v) ==
  LET found == RegisterFound(v, v.registeredButNotFound)
  IN [j \in 1..Len(found.elements) |->
        [id |-> found.elements[j]] @@ found.element[found.elements[j]]]

\* The node the traversal enters next.
NextNode == callArgs.script[callResult.pos]

Visiting ==
  /\ callArgs.op = "scanElements"
  /\ callResult.outcome = "visiting"
  /\ callResult.pos <= Len(callArgs.script)

Visited(v) ==
  /\ callResult' = [callResult EXCEPT !.pos = @ + 1, !.visitor = v]
  /\ UNCHANGED <<docVars, scanVars, callArgs>>

EnterClassDeclaration ==
  /\ Visiting
  /\ NextNode.type = "class"
  /\ NextNode.form = "declaration"
  /\ Visited(EnterClassDeclarationOf(callResult.visitor, callResult.pos, NextNode))

\* A class expression that is the argument of a call is entered after the
\* call expression, and then passed over as any that is not bound to a name.
EnterClassExpression ==
  /\ Visiting
  /\ NextNode.type = "class"
  /\ NextNode.form # "declaration"
  /\ Visited(EnterClassExpressionOf(callResult.visitor, callResult.pos, NextNode))

EnterCallExpression ==
  /\ Visiting
  /\ NextNode.type = "call"
  /\ Visited(EnterCallExpressionOf(callResult.visitor, callResult.pos, NextNode))

\* Polymer2ElementScanner.scan: return visitor.getRegisteredElements()
CallGetRegisteredElements ==
  /\ callArgs.op = "scanElements"
  /\ callResult.outcome = "visiting"
  /\ callResult.pos > Len(callArgs.script)
  /\ callResult' = [callResult EXCEPT
                      !.outcome = "returned",
                      !.elements = GetRegisteredElements(callResult.visitor)]
  /\ UNCHANGED <<docVars, scanVars, callArgs>>

InitElements ==
  /\ scanned = [d \in AllDocs |-> <<>>]
  /\ InitDocuments
  /\ InitScan
  /\ callArgs \in {[op |-> "scanElements", script |-> sc] : sc \in ElementScripts}
  /\ callResult = [outcome |-> "visiting", pos |-> 1, visitor |-> NewVisitor,
                   elements |-> <<>>]

NextElements ==
  \/ EnterClassDeclaration
  \/ EnterClassExpression
  \/ EnterCallExpression
  \/ CallGetRegisteredElements

SpecElements == InitElements /\ [][NextElements]_vars

-----------------------------------------------------------------------------
(* C25 *)

\* The node at the position is a class bound to the name by a declaration,
\* an assignment or the initialiser of a variable.
ClassBoundAt(script, i, name) ==
  /\ script[i].type = "class"
  /\ script[i].form \in {"declaration", "assignment", "variable"}
  /\ script[i].name = name

\* The node at the position is a call of customElements.define with the
\* tag name, a string, and the name.
DefineAt(script, j, tagName, name) ==
  /\ script[j].type = "call"
  /\ script[j].callee \in {"customElements.define", "window.customElements.define"}
  /\ script[j].tagName = tagName
  /\ tagName # Null
  /\ script[j].elementDefn = Named(name)

\* The names the class at the position is looked up by.
NamesOfClassAt(script, i) ==
  {script[i].name, NamespaceIdentifierName(script[i].name, script[i])}

\* The places of the list returned that hold the element of the node.
ReturnedAt(elements, i) == {j \in 1..Len(elements) : elements[j].id = i}

\* The document has one class of the name and one define call for it: no
\* other class is looked up by a name of the class, and no other define
\* call passes one.
OneClassOneDefine(script, i, j) ==
  /\ \A k \in 1..Len(script) :
       (k # i /\ script[k].type = "class" /\ script[k].form # "argument") =>
         NamesOfClassAt(script, k) \cap NamesOfClassAt(script, i) = {}
  /\ \A k \in 1..Len(script) : \A t \in TagNames, n \in NamesOfClassAt(script, i) :
       DefineAt(script, k, t, n) => k = j

-----------------------------------------------------------------------------
(* C28 *)

\* The visitor after it has entered the node at the position.
VisitNode(v, id, node) ==
  IF node.type = "call" THEN EnterCallExpressionOf(v, id, node)
  ELSE IF node.form = "declaration" THEN EnterClassDeclarationOf(v, id, node)
  ELSE EnterClassExpressionOf(v, id, node)

RECURSIVE VisitFrom(_, _, _)
VisitFrom(v, script, pos) ==
  IF pos > Len(script) THEN v
  ELSE VisitFrom(VisitNode(v, pos, script[pos]), script, pos + 1)

\* What the scan of a document of these nodes returns.
ScanElements(script) == GetRegisteredElements(VisitFrom(NewVisitor, script, 1))

\* The tag names and class names of the elements returned.
NamesReturned(elements) ==
  {[tagName |-> elements[j].tagName, className |-> elements[j].className] :
     j \in 1..Len(elements)}

\* The document is a class bound to a name and a define call that passes
\* the plain name, in one order or the other.
ClassAndDefine(script) ==
  /\ Len(script) = 2
  /\ \E i, j \in 1..2 : \E t \in TagNames, n \in ClassNames :
       ClassBoundAt(script, i, n) /\ DefineAt(script, j, t, n)

\* C28 as stated: for a class named N in a namespace and a call
\* customElements.define(T, N), the tagName and the className returned are
\* the same whether the call is visited before or after the class.
CexC28_OrderIndependent ==
  (callResult.outcome = "returned" /\ ClassAndDefine(callArgs.script)) =>
    NamesReturned(callResult.elements)
      = NamesReturned(ScanElements(<<callArgs.script[2], callArgs.script[1]>>))

\* C28 as amended: for the one class of a name and the one define call for
\* it, the tagName returned is T in both orders.  The className is the
\* namespaced name of the class where the class is visited first, and the
\* name passed to define where the call is visited first: the two differ
\* where the class is in a namespace and the call passes the plain name.
ThmC28_ClassNameByOrder ==
  callResult.outcome = "returned" =>
    LET script == callArgs.script
        elements == callResult.elements
    IN \A i, j \in 1..Len(script) : \A t \in TagNames, c \in ClassNames :
         ClassBoundAt(script, i, c) =>
           \A n \in NamesOfClassAt(script, i) :
             (DefineAt(script, j, t, n) /\ OneClassOneDefine(script, i, j)) =>
               /\ ReturnedAt(elements, i) # {}
               /\ \A k \in ReturnedAt(elements, i) :
                    /\ elements[k].tagName = t
                    /\ elements[k].className =
                         IF i < j THEN NamespaceIdentifierName(c, script[i])
                                  ELSE n

\* A class A of the namespace NS whose define call, which passes A, was
\* visited first: the className returned is A, not NS.A.
WitC28_DefineFirstPlainName ==
  /\ callResult.outcome = "returned"
  /\ Len(callArgs.script) = 2
  /\ DefineAt(callArgs.script, 1, "t1", "A")
  /\ ClassBoundAt(callArgs.script, 2, "A")
  /\ callArgs.script[2].memberof = "NS"
  /\ NamesReturned(callResult.elements) = {[tagName |-> "t1", className |-> "A"]}
  /\ NamesReturned(ScanElements(<<callArgs.script[2], callArgs.script[1]>>))
       = {[tagName |-> "t1", className |-> "NS.A"]}

-----------------------------------------------------------------------------
(* FunctionScanner: the FunctionVisitor over one construct of a script.    *)
(* A construct is told by its node type, the tags of the comment attached  *)
(* to the node handed to _initFunction, whether a name can be read off it, *)
(* and whether what it binds is a function.                                *)

\* Most declarators of one variable declaration.
MaxDeclarations == 2

CommentTags == {"memberof", "mixinFunction", "polymerMixin", "function"}

ConstructTypes ==
  {"FunctionDeclaration", "ObjectMethod", "VariableDeclaration",
   "AssignmentExpression", "ObjectProperty"}

\* An ObjectMethod has a body and no value; a declaration is a function.
Constructs ==
  {c \in [type : ConstructTypes, tags : SUBSET CommentTags, named : BOOLEAN,
          isFunction : BOOLEAN, declarations : 1..MaxDeclarations] :
     /\ c.type # "VariableDeclaration" => c.declarations = 1
     /\ c.type \in {"FunctionDeclaration", "ObjectMethod"} => c.isFunction}

\* A filter that knows @mixinFunction only
InitFunctionMixinFunctionOnly(functions, construct) ==
  IF "memberof" \notin construct.tags THEN functions
  ELSE IF ~construct.named THEN functions
  ELSE IF "mixinFunction" \in construct.tags THEN functions
  ELSE Append(functions, [node |-> construct.type])

\* _initFunction(node, analyzedName, _fn): this.functions with what the call
\* adds; every ScannedFunction is a new object of the Set.
InitFunction(functions, construct) ==
  IF "memberof" \notin construct.tags THEN functions
  ELSE IF ~construct.named THEN functions
  ELSE IF "mixinFunction" \in construct.tags \/ "polymerMixin" \in construct.tags
  THEN functions
  ELSE Append(functions, [node |-> construct.type])

\* The callback of the visitor has not been called for the construct.
ToEnter(callback) ==
  /\ callArgs.op = "scanFunctions"
  /\ callback \notin callResult.entered

Entered(callback, functions) ==
  /\ callResult' = [callResult EXCEPT !.entered = @ \cup {callback},
                                      !.functions = functions]
  /\ UNCHANGED <<docVars, scanVars, callArgs>>

EnterFunctionDeclaration ==
  /\ ToEnter("enterFunctionDeclaration")
  /\ callArgs.construct.type = "FunctionDeclaration"
  /\ Entered("enterFunctionDeclaration",
             InitFunction(callResult.functions, callArgs.construct))

\* The iteration of the loop of enterObjectExpression for the property: the
\* object expression is entered before the properties in it.
EnterObjectExpression ==
  /\ ToEnter("enterObjectExpression")
  /\ callArgs.construct.type \in {"ObjectMethod", "ObjectProperty"}
  /\ LET prop == callArgs.construct
         propValueIsFunction == prop.type = "ObjectProperty" /\ prop.isFunction
     IN Entered("enterObjectExpression",
                IF propValueIsFunction \/ "function" \in prop.tags
                THEN InitFunction(callResult.functions, prop)
                ELSE callResult.functions)

EnterObjectMethod ==
  /\ ToEnter("enterObjectMethod")
  /\ "enterObjectExpression" \in callResult.entered
  /\ callArgs.construct.type = "ObjectMethod"
  /\ Entered("enterObjectMethod",
             InitFunction(callResult.functions, callArgs.construct))

EnterVariableDeclaration ==
  /\ ToEnter("enterVariableDeclaration")
  /\ callArgs.construct.type = "VariableDeclaration"
  /\ Entered("enterVariableDeclaration",
             IF callArgs.construct.declarations # 1 THEN callResult.functions
             ELSE IF callArgs.construct.isFunction
             THEN InitFunction(callResult.functions, callArgs.construct)
             ELSE callResult.functions)

EnterAssignmentExpression ==
  /\ ToEnter("enterAssignmentExpression")
  /\ callArgs.construct.type = "AssignmentExpression"
  /\ Entered("enterAssignmentExpression",
             IF callArgs.construct.isFunction
             THEN InitFunction(callResult.functions, callArgs.construct)
             ELSE callResult.functions)

InitFunctions ==
  /\ scanned = [d \in AllDocs |-> <<>>]
  /\ InitDocuments
  /\ InitScan
  /\ callArgs \in {[op |-> "scanFunctions", construct |-> c] : c \in Constructs}
  /\ callResult = [outcome |-> "visiting", entered |-> {}, functions |-> <<>>]

NextFunctions ==
  \/ EnterFunctionDeclaration
  \/ EnterObjectExpression
  \/ EnterObjectMethod
  \/ EnterVariableDeclaration
  \/ EnterAssignmentExpression

SpecFunctions == InitFunctions /\ [][NextFunctions]_vars

-----------------------------------------------------------------------------
(* C26 *)

\* Every callback the traversal has for the construct has been called.
TraversalDone ==
  callResult.entered =
    CASE callArgs.construct.type = "FunctionDeclaration" ->
           {"enterFunctionDeclaration"}
      [] callArgs.construct.type = "ObjectMethod" ->
           {"enterObjectExpression", "enterObjectMethod"}
      [] callArgs.construct.type = "ObjectProperty" -> {"enterObjectExpression"}
      [] callArgs.construct.type = "VariableDeclaration" ->
           {"enterVariableDeclaration"}
      [] callArgs.construct.type = "AssignmentExpression" ->
           {"enterAssignmentExpression"}

\* A named function, an object method, a variable-bound function expression
\* or a function-valued assignment.
FunctionConstruct(c) ==
  /\ c.type \in {"FunctionDeclaration", "ObjectMethod", "VariableDeclaration",
                 "AssignmentExpression"}
  /\ c.isFunction

\* C26 as stated: for a named function, object method, variable-bound
\* function expression or function-valued assignment one ScannedFunction
\* is emitted exactly when the comment has @memberof and no @mixinFunction,
\* and never two.
CexC26_OneWhenMemberof ==
  (TraversalDone /\ FunctionConstruct(callArgs.construct)) =>
    Len(callResult.functions) =
      IF "memberof" \in callArgs.construct.tags
           /\ "mixinFunction" \notin callArgs.construct.tags
      THEN 1 ELSE 0

\* C26 as amended: a ScannedFunction is emitted for such a construct exactly
\* when the comment has @memberof and neither @mixinFunction nor
\* @polymerMixin, a name can be read off the construct, and, for a variable
\* declaration, it has one declarator.  One is emitted per construct, but
\* two for an object method whose comment also has @function: one by
\* enterObjectExpression and one by enterObjectMethod.
ThmC26_EmittedFunctions ==
  (TraversalDone /\ FunctionConstruct(callArgs.construct)) =>
    LET c == callArgs.construct
        emits == /\ "memberof" \in c.tags
                 /\ "mixinFunction" \notin c.tags
                 /\ "polymerMixin" \notin c.tags
                 /\ c.named
                 /\ c.declarations = 1
    IN Len(callResult.functions) =
         IF ~emits THEN 0
         ELSE IF c.type = "ObjectMethod" /\ "function" \in c.tags THEN 2
         ELSE 1

\* An object method with @memberof and @function was emitted twice.
WitC26_ObjectMethodTwice ==
  /\ TraversalDone
  /\ callArgs.construct.type = "ObjectMethod"
  /\ callArgs.construct.tags = {"memberof", "function"}
  /\ Len(callResult.functions) = 2

-----------------------------------------------------------------------------
(* C27 *)

\* The features of the kind that the traversal without indexes finds and
\* whose identifiers hold the id.
TraversedWithId(d, kind, id) ==
  {f \in Range(PrivateGetByKind(localFeatures, d, kind, {}).result) :
     id \in Identifiers(f)}

\* C27: at every moment, before and after the indexes of a document are
\* built, getById(kind, id) is the part of getByKind(kind) whose
\* identifiers hold id, and it is what the traversal without indexes
\* finds, every feature once.
ThmC27_GetByIdIsFilteredGetByKind ==
  \A d \in AllDocs, k \in AllKinds, id \in AllIds :
    LET byId == GetById(d, k, id)
    IN /\ Range(byId) = {f \in Range(GetByKind(d, k)) : id \in Identifiers(f)}
       /\ Range(byId) = TraversedWithId(d, k, id)
       /\ NoDuplicates(byId)

\* The indexes of a document are built, and getById finds in them the
\* element of the document it imports.
WitC27_IndexedImportedElement ==
  /\ Indexed("a")
  /\ HoldsImportOf("a", "b")
  /\ Len(GetById("a", "element", "foo")) = 1
  /\ GetById("a", "element", "foo")[1].owner = "b"

-----------------------------------------------------------------------------
(* The legacy ElementVisitor (ElementFinder): the enter and leave          *)
(* callbacks of class declarations and call expressions, well nested.  An  *)
(* element is known by the number of the construct that made it; 0 is      *)
(* null.                                                                   *)

\* Most constructs entered in one traversal.
MaxConstructs == 4

\* Deepest nesting of constructs.
MaxNesting == 3

\* new ElementVisitor()
NewLegacyVisitor ==
  [outcome |-> "visiting", element |-> 0, classDetected |-> FALSE,
   entities |-> <<>>, open |-> <<>>, entered |-> 0]

LegacyVisiting ==
  /\ callArgs.op = "findEntities"
  /\ callResult.outcome = "visiting"

\* The innermost construct entered and not left.
Innermost == callResult.open[Len(callResult.open)]

\* The traversal can enter a construct here: not below a node whose enter
\* callback returned VisitorOption.Skip.
CanEnter ==
  /\ LegacyVisiting
  /\ callResult.entered < MaxConstructs
  /\ Len(callResult.open) < MaxNesting
  /\ callResult.open # <<>> => ~Innermost.skipped

\* enterClassDeclaration(node, parent)
LegacyEnterClassDeclaration ==
  /\ CanEnter
  /\ callResult' =
       [callResult EXCEPT
          !.classDetected = TRUE,
          !.element = callResult.entered + 1,
          !.entered = @ + 1,
          !.open = Append(@, [kind |-> "class", polymer |-> FALSE,
                              oneObject |-> FALSE, skipped |-> FALSE])]
  /\ UNCHANGED <<docVars, scanVars, callArgs>>

\* leaveClassDeclaration(node, parent): this.element.properties is read
\* before this.element is tested.
LegacyLeaveClassDeclaration ==
  /\ LegacyVisiting
  /\ callResult.open # <<>>
  /\ Innermost.kind = "class"
  /\ callResult' =
       IF callResult.element = 0
       THEN [callResult EXCEPT !.outcome = "threw"]
       ELSE [callResult EXCEPT
               !.entities = Append(@, callResult.element),
               !.element = 0,
               !.classDetected = FALSE,
               !.open = SubSeq(@, 1, Len(@) - 1)]
  /\ UNCHANGED <<docVars, scanVars, callArgs>>

\* enterCallExpression(node, parent), of a call of Polymer or of another
\* callee, with one object literal for its arguments or with others.
LegacyEnterCallExpression ==
  /\ CanEnter
  /\ \E polymer \in BOOLEAN, oneObject \in BOOLEAN :
       callResult' =
         [callResult EXCEPT
            !.element = IF ~callResult.classDetected /\ polymer
                        THEN callResult.entered + 1 ELSE @,
            !.entered = @ + 1,
            !.open = Append(@, [kind |-> "call", polymer |-> polymer,
                                oneObject |-> oneObject,
                                skipped |-> callResult.classDetected])]
  /\ UNCHANGED <<docVars, scanVars, callArgs>>

\* leaveCallExpression(node, parent)
LegacyLeaveCallExpression ==
  /\ LegacyVisiting
  /\ callResult.open # <<>>
  /\ Innermost.kind = "call"
  /\ callResult' =
       IF Innermost.polymer /\ Innermost.oneObject /\ callResult.element # 0
       THEN [callResult EXCEPT
               !.entities = Append(@, callResult.element),
               !.element = 0,
               !.open = SubSeq(@, 1, Len(@) - 1)]
       ELSE [callResult EXCEPT !.open = SubSeq(@, 1, Len(@) - 1)]
  /\ UNCHANGED <<docVars, scanVars, callArgs>>

InitLegacy ==
  /\ scanned = [d \in AllDocs |-> <<>>]
  /\ InitDocuments
  /\ InitScan
  /\ callArgs = [op |-> "findEntities"]
  /\ callResult = NewLegacyVisitor

NextLegacy ==
  \/ LegacyEnterClassDeclaration
  \/ LegacyLeaveClassDeclaration
  \/ LegacyEnterCallExpression
  \/ LegacyLeaveCallExpression

SpecLegacy == InitLegacy /\ [][NextLegacy]_vars

-----------------------------------------------------------------------------
(* C29 *)

\* The step leaves a class declaration or a call Polymer({...}).
LeavesElementConstruct ==
  /\ LegacyVisiting
  /\ callResult.open # <<>>
  /\ callResult' # callResult
  /\ Len(callResult'.open) < Len(callResult.open) \/ callResult'.outcome = "threw"
  /\ \/ Innermost.kind = "class"
     \/ Innermost.kind = "call" /\ Innermost.polymer /\ Innermost.oneObject

\* C29: for every well-nested sequence of enter and leave callbacks, with
\* class declarations nested in one another and calls of Polymer with any
\* arguments, every leaveClassDeclaration finds an element under
\* construction, every class declaration and every call Polymer({...})
\* adds exactly one entity, and once the outermost construct is left no
\* element is under construction.
CexC29_OneEntityPerConstruct ==
  /\ [](callResult.outcome # "threw")
  /\ [][LeavesElementConstruct =>
          Len(callResult'.entities) = Len(callResult.entities) + 1]_vars
  /\ []((LegacyVisiting /\ callResult.open = <<>>) => callResult.element = 0)

-----------------------------------------------------------------------------
(* buildAnalysis: the members of a package placed in the analysis.  A      *)
(* name is a sequence of characters; a member is known by its place in     *)
(* the input, and 0 stands for the analysis itself.                        *)

\* Most members of one input.
MaxMembers == 3

\* undefined, where a name is expected.
NoName == <<"undefined">>

MemberNames == {<<"a">>, <<"a", ".", "b">>, <<"a", ".", "b", ".", "c">>}

MemberKinds == {"namespace", "element", "mixin", "function", "behavior"}

\* name of a namespace, a mixin or a function; className, which may be
\* undefined, of an element or a behavior.
MemberItems ==
  {[kind |-> k, name |-> n] : k \in MemberKinds, n \in MemberNames}
    \cup {[kind |-> k, name |-> NoName] : k \in {"element", "behavior"}}

\* The five sets of Members, in one sequence: each set is iterated in the
\* order of insertion.
MemberLists == BoundedSeq(MemberItems, MaxMembers)

\* The serialized member is pushed onto this list of its parent.
ListOfKind(kind) ==
  CASE kind = "namespace" -> "namespaces"
    [] kind = "element" -> "elements"
    [] kind = "mixin" -> "mixins"
    [] kind = "function" -> "functions"
    [] kind = "behavior" -> "metadata.polymer.behaviors"

\* getNamespaceName cut at the first dot.
GetNamespaceNameFirstDot(name) ==
  IF name = NoName
  THEN NoName
  ELSE LET dots == {i \in 1..Len(name) : name[i] = "."}
       IN IF dots = {}
          THEN NoName
          ELSE SubSeq(name, 1, (CHOOSE i \in dots : \A j \in dots : i <= j) - 1)

\* getNamespaceName(name)
GetNamespaceName(name) ==
  IF name = NoName
  THEN NoName
  ELSE LET dots == {i \in 1..Len(name) : name[i] = "."}
       IN IF dots = {}
          THEN NoName
          ELSE SubSeq(name, 1, (CHOOSE i \in dots : \A j \in dots : i >= j) - 1)

\* The first loop of buildAnalysis: namespaces.set(namespace.name, ...)
\* for the namespaces from place i on.
RECURSIVE SetNamespaces(_, _, _)
SetNamespaces(members, i, namespaces) ==
  IF i > Len(members)
  THEN namespaces
  ELSE SetNamespaces(members, i + 1,
         IF members[i].kind = "namespace"
         THEN MapSet(namespaces, members[i].name, i)
         ELSE namespaces)

\* namespaces.get(namespaceName) || analysis
NamespaceOrAnalysis(namespaces, namespaceName) ==
  IF \E j \in 1..Len(namespaces) : namespaces[j].key = namespaceName
  THEN (CHOOSE e \in Range(namespaces) : e.key = namespaceName).value
  ELSE 0

\* One push of a serialized member.
Pushed(members, namespaces, i) ==
  [member |-> i,
   list |-> ListOfKind(members[i].kind),
   under |-> NamespaceOrAnalysis(namespaces, GetNamespaceName(members[i].name))]

\* for (const namespace of namespaces.values()) { ... }
PushNamespaces(members, namespaces) ==
  [j \in 1..Len(namespaces) |-> Pushed(members, namespaces, namespaces[j].value)]

\* for (const member of members.<kind>) { ... }
PushMembers(members, namespaces, kind) ==
  LET OfKind(i) == members[i].kind = kind
      places == SelectSeq([i \in 1..Len(members) |-> i], OfKind)
  IN [j \in 1..Len(places) |-> Pushed(members, namespaces, places[j])]

\* buildAnalysis(members, packagePath): the pushes it makes, in order.
BuildAnalysis(members) ==
  LET namespaces == SetNamespaces(members, 1, <<>>)
  IN PushNamespaces(members, namespaces)
       \o PushMembers(members, namespaces, "element")
       \o PushMembers(members, namespaces, "mixin")
       \o PushMembers(members, namespaces, "function")
       \o PushMembers(members, namespaces, "behavior")

CallBuildAnalysis ==
  /\ callArgs.op = "buildAnalysis"
  /\ callResult = Pending
  /\ callResult' = [outcome |-> "returned",
                    value |-> BuildAnalysis(callArgs.members)]
  /\ UNCHANGED <<docVars, scanVars, callArgs>>

InitBuildAnalysis ==
  /\ scanned = [d \in AllDocs |-> <<>>]
  /\ InitDocuments
  /\ InitScan
  /\ callArgs \in {[op |-> "buildAnalysis", members |-> m] : m \in MemberLists}
  /\ callResult = Pending

NextBuildAnalysis == CallBuildAnalysis

SpecBuildAnalysis == InitBuildAnalysis /\ [][NextBuildAnalysis]_vars

-----------------------------------------------------------------------------
(* C30 *)

AnalysisBuilt ==
  /\ callArgs.op = "buildAnalysis"
  /\ callResult.outcome = "returned"

\* The name with its last dotted segment removed; NoName when the name
\* has no dot.
WithoutLastSegment(name) ==
  IF \E k \in 1..Len(name) :
       /\ name[k] = "."
       /\ \A j \in (k + 1)..Len(name) : name[j] # "."
  THEN SubSeq(name, 1,
         (CHOOSE k \in 1..Len(name) :
            /\ name[k] = "."
            /\ \A j \in (k + 1)..Len(name) : name[j] # ".") - 1)
  ELSE NoName

\* The input namespaces of a name.
NamespacesNamed(members, name) ==
  {j \in 1..Len(members) :
     members[j].kind = "namespace" /\ members[j].name = name}

\* The pushes of the member at place i.
PushesOf(pushes, i) == {j \in 1..Len(pushes) : pushes[j].member = i}

\* The member at place i was pushed once, onto the list of its kind, under
\* a namespace named by its name less the last segment when the input has
\* one and under the analysis otherwise.
EmittedOnceInPlace(members, pushes, i) ==
  LET parents == NamespacesNamed(members, WithoutLastSegment(members[i].name))
  IN /\ Cardinality(PushesOf(pushes, i)) = 1
     /\ \A j \in PushesOf(pushes, i) :
          /\ pushes[j].list = ListOfKind(members[i].kind)
          /\ IF parents = {} THEN pushes[j].under = 0
                             ELSE pushes[j].under \in parents

\* A later namespace of the input has the name of the member at place i.
NamespaceReplaced(members, i) ==
  /\ members[i].kind = "namespace"
  /\ \E j \in NamespacesNamed(members, members[i].name) : j > i

\* C30 as stated: buildAnalysis emits every namespace, element, mixin,
\* function and behavior of its input exactly once, under the namespace
\* named by the member's name less its last dotted segment when the input
\* has such a namespace and at the top level otherwise.
CexC30_EveryMemberEmittedOnce ==
  AnalysisBuilt =>
    \A i \in 1..Len(callArgs.members) :
      EmittedOnceInPlace(callArgs.members, callResult.value, i)

\* C30, amended: a namespace is emitted only when no later namespace of
\* the input has its name, and then exactly once; every other member is
\* emitted exactly once; each emitted member lies under the last input
\* namespace named by its name less the last dotted segment, or at the top
\* level when there is none; nothing lies under a namespace that was not
\* emitted.
ThmC30_MembersEmittedLastNamespaceWins ==
  AnalysisBuilt =>
    LET members == callArgs.members
        pushes == callResult.value
    IN /\ \A i \in 1..Len(members) :
            IF NamespaceReplaced(members, i)
            THEN PushesOf(pushes, i) = {}
            ELSE /\ EmittedOnceInPlace(members, pushes, i)
                 /\ \A j \in PushesOf(pushes, i) :
                      pushes[j].under # 0 =>
                        ~NamespaceReplaced(members, pushes[j].under)
       /\ \A j \in 1..Len(pushes) : pushes[j].member \in 1..Len(members)

\* Two namespaces of one name and a member below that name: the first
\* namespace is not emitted and the member lies under the second.
WitC30_SecondNamespaceOfName ==
  /\ AnalysisBuilt
  /\ \E i, j, k \in 1..Len(callArgs.members) :
       /\ i < j
       /\ NamespaceReplaced(callArgs.members, i)
       /\ j \in NamespacesNamed(callArgs.members, callArgs.members[i].name)
       /\ callArgs.members[k].kind = "function"
       /\ PushesOf(callResult.value, i) = {}
       /\ \E p \in PushesOf(callResult.value, k) : callResult.value[p].under = j

====
